---- MODULE Spec2Model ----
(***************************************************************************)
(* A model of the job lifecycle and polling core of hyp3-sdk: Job, Batch   *)
(* and the HyP3 client operations refresh, watch, find_jobs, update_jobs   *)
(* and the file download path.                                             *)
(***************************************************************************)
EXTENDS Integers, Sequences, FiniteSets, TLC

VARIABLES
    pc,          \* position of the running client call
    op,          \* the client operation that was called
    arg,         \* the caller's Job or Batch object (the heap object passed in)
    arg0,        \* the value of arg when the call started
    local,       \* the local variable `job` / `batch` of the running call
    acc,         \* the list `jobs` being built by _refresh_batch / the Batch built by update_jobs
    server,      \* remote API: job_id -> status_code
    timeout,     \* watch argument
    interval,    \* watch argument
    ii,          \* loop index of watch
    log,         \* the requests and sleeps the client has performed, in order
    lastResp,    \* the most recent HTTP response received
    nIncomplete, \* number of refresh rounds of this call that found the target incomplete
    failed,      \* the first failed response of this call, or NoResponse
    result,      \* the value the call returned, or None
    error,       \* the exception the call raised, or NoError
    pages,       \* remote API: the pages a job search is served in
    params,      \* the query parameters / JSON body the call sends
    fs,          \* local file system: the download destination and the files in it
    fs0,         \* the value of fs when the call started
    attempts,    \* attempts the latest download_file call made at its url
    create,      \* download_files argument
    idx,         \* Batch.download_files: number of jobs already handled
    paths,       \* Job.download_files: the list `downloaded_files`
    warns,       \* the warnings printed by Batch.download_files
    retried,     \* statuses the latest download_file call answered with another attempt
    heap         \* the caller's objects: named Batches, the lists they hold, the Jobs in them

vars == <<pc, op, arg, arg0, local, acc, server, timeout, interval, ii, log,
          lastResp, nIncomplete, failed, result, error, pages, params, fs, fs0,
          attempts, create, idx, paths, warns, retried, heap>>

\* the variables of the polling loop, of the job search and of the downloads
watchVars == <<server, timeout, interval, ii, nIncomplete>>
findVars == <<pages, params>>
dlVars == <<fs, fs0, attempts, create, idx, paths, warns, retried>>

-----------------------------------------------------------------------------
(* Bounds of the model *)

MaxBatch == 2      \* longest Batch handed to a client call; job ids are 1..MaxBatch
MaxTimeout == 4    \* largest watch timeout, in seconds
MaxInterval == 2   \* largest watch interval, in seconds
MaxPages == 3      \* most pages a job search is served in
MaxPageLen == 2    \* most jobs on one page
MaxFiles == 2      \* most files of one job
MaxStatements == 3 \* most statements a caller runs on its Batches
MaxSeqLen == 5     \* longest sequence handed to chunk

-----------------------------------------------------------------------------
(* Python values *)

None == <<>>
Some(v) == <<v>>
Get(d, k) == IF k \in DOMAIN d THEN Some(d[k]) ELSE None

Ceil(a, b) == IF a % b = 0 THEN a \div b ELSE (a \div b) + 1

RECURSIVE CountIf(_, _)
CountIf(s, st) ==
    IF s = <<>> THEN 0
    ELSE (IF Head(s).status_code = st THEN 1 ELSE 0) + CountIf(Tail(s), st)

-----------------------------------------------------------------------------
(* Timestamps: an ISO-8601 string on the wire, a datetime in a Job *)

IsoString(secs, zone) == [iso |-> secs, zone |-> zone]
parse_date(s) == [secs |-> s.iso, tzinfo |-> IF s.zone = "" THEN None ELSE Some("UTC")]

\* a string that is no date: parse_date raises ParserError on it
Unparseable == IsoString(-1, "")
parse_raises(s) == s.iso < 0

-----------------------------------------------------------------------------
(* Job *)

from_dict(d) ==
    [job_type |-> d.job_type, job_id |-> d.job_id,
     request_time |-> parse_date(d.request_time),
     status_code |-> d.status_code, user_id |-> d.user_id,
     name |-> Get(d, "name"), job_parameters |-> Get(d, "job_parameters"),
     files |-> Get(d, "files"), logs |-> Get(d, "logs"),
     browse_images |-> Get(d, "browse_images"),
     thumbnail_images |-> Get(d, "thumbnail_images"),
     expiration_time |-> IF "expiration_time" \in DOMAIN d
                         THEN Some(parse_date(d.expiration_time)) ELSE None]

JobStr(job) == <<"HyP3 ", job.job_type, " job ", job.job_id>>

succeeded(job) == job.status_code = "SUCCEEDED"
job_failed(job) == job.status_code = "FAILED"
complete(job) == succeeded(job) \/ job_failed(job)
\* mutant: only the status RUNNING counts as running
RunningMutOnlyRunning(job) == job.status_code = "RUNNING"

running(job) == ~complete(job)

-----------------------------------------------------------------------------
(* Batch: an object holding the list `jobs` *)

Batch(jobs) == [jobs |-> jobs]

count_statuses(b) == [st \in {"SUCCEEDED", "FAILED", "RUNNING", "PENDING"} |-> CountIf(b.jobs, st)]

BatchStr(b) ==
    <<Len(b.jobs), " HyP3 Jobs: ", count_statuses(b)["SUCCEEDED"], " succeeded, ",
      count_statuses(b)["FAILED"], " failed, ", count_statuses(b)["RUNNING"], " running, ",
      count_statuses(b)["PENDING"], " pending.">>

\* mutant: a Batch counts as complete as soon as one of its jobs is
BatchCompleteMutAny(b) == b.jobs = <<>> \/ \E i \in 1..Len(b.jobs) : complete(b.jobs[i])

batch_complete(b) == \A i \in 1..Len(b.jobs) : complete(b.jobs[i])

\* mutant: only the last job of the Batch is looked at
BatchSucceededMutLast(b) == b.jobs = <<>> \/ succeeded(b.jobs[Len(b.jobs)])

batch_succeeded(b) == \A i \in 1..Len(b.jobs) : succeeded(b.jobs[i])

IsBatch(x) == "jobs" \in DOMAIN x
Str(x) == IF IsBatch(x) THEN BatchStr(x) ELSE JobStr(x)
IsComplete(x) == IF IsBatch(x) THEN batch_complete(x) ELSE complete(x)

-----------------------------------------------------------------------------
(* Exceptions *)

NoError == [type |-> "none", msg |-> <<>>]
HyP3SDKError(msg) == [type |-> "HyP3SDKError", msg |-> msg]
HyP3Error(msg) == [type |-> "HyP3Error", msg |-> msg]
ServerError == [type |-> "ServerError", msg |-> <<>>]
ConnectionError == [type |-> "requests.ConnectionError", msg |-> <<>>]
KeyError(key) == [type |-> "KeyError", msg |-> <<key>>]
ParserError == [type |-> "dateutil.parser.ParserError", msg |-> <<>>]
TypeError(msg) == [type |-> "TypeError", msg |-> msg]
ValueError(msg) == [type |-> "ValueError", msg |-> msg]

\* HyP3Error, ServerError and the other SDK errors derive from HyP3SDKError
IsHyP3SDKError(e) == e.type \in {"HyP3SDKError", "HyP3Error", "ServerError"}

-----------------------------------------------------------------------------
(* The remote API *)

JobIds == 1..MaxBatch
Statuses == {"PENDING", "RUNNING", "SUCCEEDED", "FAILED"}

\* statuses a job in status s can be found in at a later fetch
ServerNext(s) ==
    CASE s = "PENDING" -> Statuses
      [] s = "RUNNING" -> {"RUNNING", "SUCCEEDED", "FAILED"}
      [] OTHER -> {s}

\* the job record the API serves for job j in status st
ServerRecord(j, st) ==
    LET base == [job_type |-> "RTC_GAMMA", job_id |-> j,
                 request_time |-> IsoString(10, "+00:00"),
                 status_code |-> st, user_id |-> "user", name |-> "name",
                 job_parameters |-> [granules |-> <<"g1">>]]
    IN IF st = "SUCCEEDED"
       THEN [k \in DOMAIN base \cup {"files", "expiration_time"} |->
               CASE k = "files" -> <<[url |-> <<"https://foo.com/file", j>>,
                                      filename |-> <<"file", j>>, size |-> 0]>>
                 [] k = "expiration_time" -> IsoString(100, "+00:00")
                 [] OTHER -> base[k]]
       ELSE base

\* HTTP responses; status 0 stands for a transport failure (no response)
Response(status, json) == [status |-> status, json |-> json]
NoResponse == Response(-1, <<>>)
TransportFailure == Response(0, <<>>)
ErrorStatuses == {404, 500}
ErrorBody == [detail |-> "test error message"]
FailureResponses == {Response(st, ErrorBody) : st \in ErrorStatuses} \cup {TransportFailure}

\* what a GET of /jobs/{j} can be answered with
GetJobResponses(j) ==
    {Response(200, ServerRecord(j, st)) : st \in ServerNext(server[j])} \cup FailureResponses

ServerAfter(j, r) ==
    IF r.status = 200 THEN [server EXCEPT ![j] = r.json.status_code] ELSE server

\* _raise_for_hyp3_status: the exception raised for a response, or NoError
raise_for_hyp3_status(r) ==
    IF 400 <= r.status /\ r.status < 600
    THEN IF 400 <= r.status /\ r.status < 500
         THEN IF "detail" \in DOMAIN r.json
              THEN HyP3Error(<<"<Response [", r.status, "]> ", r.json.detail>>)
              ELSE KeyError("detail")
         ELSE ServerError
    ELSE NoError

\* session.get(...) followed by _raise_for_hyp3_status(response)
RequestError(r) == IF r = TransportFailure THEN ConnectionError ELSE raise_for_hyp3_status(r)

GetEvent(j) == [ev |-> "GET", x |-> <<"/jobs/", j>>]
SleepEvent(secs) == [ev |-> "sleep", x |-> secs]

-----------------------------------------------------------------------------
(* HyP3.refresh and HyP3.watch *)

\* the Job the caller holds for job j: the record a submission returned
SubmittedJob(j) == from_dict(ServerRecord(j, "PENDING"))

\* the job ids of a Batch: up to MaxBatch different jobs, in any order
BatchSeqs == {ids \in UNION {[1..n -> JobIds] : n \in 0..MaxBatch} :
                \A a, b \in DOMAIN ids : a # b => ids[a] # ids[b]}
Targets == {SubmittedJob(j) : j \in JobIds}
           \cup {Batch([i \in DOMAIN ids |-> SubmittedJob(ids[i])]) : ids \in BatchSeqs}

\* the jobs a refresh of x fetches, in order
JobsOf(x) == IF IsBatch(x) THEN x.jobs ELSE <<x>>

\* the value refresh returns once every fetch has returned
Refreshed(x, jobs) == IF IsBatch(x) THEN Batch(jobs) ELSE jobs[1]

iterations_until_timeout == Ceil(timeout, interval)

TimeoutError(x) == HyP3Error(<<"Timeout occurred while waiting for ", Str(x)>>)

CallRefresh(t) ==
    /\ pc = "idle"
    /\ op' = "refresh"
    /\ arg' = t /\ arg0' = t /\ local' = t
    /\ acc' = <<>>
    /\ pc' = "refresh"
    /\ UNCHANGED <<server, timeout, interval, ii, log, lastResp, nIncomplete, failed,
                   result, error>>
    /\ UNCHANGED <<findVars, dlVars>>
    /\ UNCHANGED heap

CallWatch(t, to, iv) ==
    /\ pc = "idle"
    /\ op' = "watch"
    /\ arg' = t /\ arg0' = t /\ local' = t
    /\ timeout' = to /\ interval' = iv /\ ii' = 0
    /\ pc' = "watch_loop"
    /\ UNCHANGED <<acc, server, log, lastResp, nIncomplete, failed, result, error>>
    /\ UNCHANGED <<findVars, dlVars>>
    /\ UNCHANGED heap

\* mutant: one round more than the poll budget allows
WatchLoopMutExtraRound ==
    /\ pc = "watch_loop"
    /\ IF ii <= iterations_until_timeout
       THEN /\ acc' = <<>>
            /\ pc' = "refresh"
            /\ UNCHANGED error
       ELSE /\ error' = TimeoutError(local)
            /\ pc' = "raised"
            /\ UNCHANGED acc
    /\ UNCHANGED <<op, arg, arg0, local, server, timeout, interval, ii, log, lastResp,
                   nIncomplete, failed, result>>
    /\ UNCHANGED <<findVars, dlVars>>
    /\ UNCHANGED heap

\* for ii in range(iterations_until_timeout): ... ; raise HyP3Error(...)
WatchLoop ==
    /\ pc = "watch_loop"
    /\ IF ii < iterations_until_timeout
       THEN /\ acc' = <<>>
            /\ pc' = "refresh"
            /\ UNCHANGED error
       ELSE /\ error' = TimeoutError(local)
            /\ pc' = "raised"
            /\ UNCHANGED acc
    /\ UNCHANGED <<op, arg, arg0, local, server, timeout, interval, ii, log, lastResp,
                   nIncomplete, failed, result>>
    /\ UNCHANGED <<findVars, dlVars>>
    /\ UNCHANGED heap

\* mutant: a failed fetch is swallowed and the job fetched again
RefreshJobMutRetry(r) ==
    /\ pc = "refresh"
    /\ Len(acc) < Len(JobsOf(local))
    /\ LET j == JobsOf(local)[Len(acc) + 1].job_id IN
         /\ r \in GetJobResponses(j)
         /\ log' = Append(log, GetEvent(j))
         /\ server' = ServerAfter(j, r)
    /\ lastResp' = r
    /\ IF RequestError(r) = NoError
       THEN /\ acc' = Append(acc, from_dict(r.json))
            /\ UNCHANGED <<pc, error, failed>>
       ELSE /\ failed' = r
            /\ Len(log) < 3
            /\ UNCHANGED <<pc, error, acc>>
    /\ UNCHANGED <<op, arg, arg0, local, timeout, interval, ii, nIncomplete, result>>
    /\ UNCHANGED <<findVars, dlVars>>
    /\ UNCHANGED heap

\* mutant: fetches overlap, so the response read may be one the API produced
\* for an earlier request, before the job moved on
RefreshJobMutStale(r) ==
    /\ pc = "refresh"
    /\ Len(acc) < Len(JobsOf(local))
    /\ LET j == JobsOf(local)[Len(acc) + 1].job_id IN
         /\ r \in {Response(200, ServerRecord(j, st)) : st \in Statuses} \cup FailureResponses
         /\ log' = Append(log, GetEvent(j))
         /\ server' = server
    /\ lastResp' = r
    /\ IF RequestError(r) = NoError
       THEN /\ acc' = Append(acc, from_dict(r.json))
            /\ UNCHANGED <<pc, error, failed>>
       ELSE /\ error' = RequestError(r)
            /\ failed' = r
            /\ pc' = "raised"
            /\ UNCHANGED acc
    /\ UNCHANGED <<op, arg, arg0, local, timeout, interval, ii, nIncomplete, result>>
    /\ UNCHANGED <<findVars, dlVars>>
    /\ UNCHANGED heap

\* _refresh_job -> get_job_by_id for the next job of the target
RefreshJob(r) ==
    /\ pc = "refresh"
    /\ Len(acc) < Len(JobsOf(local))
    /\ LET j == JobsOf(local)[Len(acc) + 1].job_id IN
         /\ r \in GetJobResponses(j)
         /\ log' = Append(log, GetEvent(j))
         /\ server' = ServerAfter(j, r)
    /\ lastResp' = r
    /\ IF RequestError(r) = NoError
       THEN /\ acc' = Append(acc, from_dict(r.json))
            /\ UNCHANGED <<pc, error, failed>>
       ELSE /\ error' = RequestError(r)
            /\ failed' = r
            /\ pc' = "raised"
            /\ UNCHANGED acc
    /\ UNCHANGED <<op, arg, arg0, local, timeout, interval, ii, nIncomplete, result>>
    /\ UNCHANGED <<findVars, dlVars>>
    /\ UNCHANGED heap

\* mutant: refresh updates the object it was given and returns that object
RefreshReturnMutInPlace ==
    /\ pc = "refresh" /\ op = "refresh"
    /\ Len(acc) = Len(JobsOf(local))
    /\ arg' = Refreshed(local, acc)
    /\ result' = Some(arg')
    /\ pc' = "returned"
    /\ UNCHANGED <<op, arg0, local, acc, server, timeout, interval, ii, log, lastResp,
                   nIncomplete, failed, error>>
    /\ UNCHANGED <<findVars, dlVars>>
    /\ UNCHANGED heap

\* refresh returns its new value to the caller
RefreshReturn ==
    /\ pc = "refresh" /\ op = "refresh"
    /\ Len(acc) = Len(JobsOf(local))
    /\ result' = Some(Refreshed(local, acc))
    /\ pc' = "returned"
    /\ UNCHANGED <<op, arg, arg0, local, acc, server, timeout, interval, ii, log, lastResp,
                   nIncomplete, failed, error>>
    /\ UNCHANGED <<findVars, dlVars>>
    /\ UNCHANGED heap

\* mutant: the sleep comes before the completion check
WatchCheckMutSleepFirst ==
    /\ pc = "refresh" /\ op = "watch"
    /\ Len(acc) = Len(JobsOf(local))
    /\ local' = Refreshed(local, acc)
    /\ log' = Append(log, SleepEvent(interval))
    /\ IF IsComplete(local')
       THEN /\ result' = Some(local')
            /\ pc' = "returned"
            /\ UNCHANGED nIncomplete
       ELSE /\ nIncomplete' = nIncomplete + 1
            /\ pc' = "sleep"
            /\ UNCHANGED result
    /\ UNCHANGED <<op, arg, arg0, acc, server, timeout, interval, ii, lastResp,
                   failed, error>>
    /\ UNCHANGED <<findVars, dlVars>>
    /\ UNCHANGED heap

\* job = self.refresh(job); if job.complete(): return job
WatchCheck ==
    /\ pc = "refresh" /\ op = "watch"
    /\ Len(acc) = Len(JobsOf(local))
    /\ local' = Refreshed(local, acc)
    /\ IF IsComplete(local')
       THEN /\ result' = Some(local')
            /\ pc' = "returned"
            /\ UNCHANGED nIncomplete
       ELSE /\ nIncomplete' = nIncomplete + 1
            /\ pc' = "sleep"
            /\ UNCHANGED result
    /\ UNCHANGED <<op, arg, arg0, acc, server, timeout, interval, ii, log, lastResp,
                   failed, error>>
    /\ UNCHANGED <<findVars, dlVars>>
    /\ UNCHANGED heap

\* mutant: no sleep after the last round, when the timeout error comes next
WatchSleepMutSkipLast ==
    /\ pc = "sleep"
    /\ log' = IF ii + 1 < iterations_until_timeout THEN Append(log, SleepEvent(interval)) ELSE log
    /\ ii' = ii + 1
    /\ pc' = "watch_loop"
    /\ UNCHANGED <<op, arg, arg0, local, acc, server, timeout, interval, nIncomplete,
                   lastResp, failed, result, error>>
    /\ UNCHANGED <<findVars, dlVars>>
    /\ UNCHANGED heap

\* time.sleep(interval), then the next iteration
WatchSleep ==
    /\ pc = "sleep"
    /\ log' = Append(log, SleepEvent(interval))
    /\ ii' = ii + 1
    /\ pc' = "watch_loop"
    /\ UNCHANGED <<op, arg, arg0, local, acc, server, timeout, interval, nIncomplete,
                   lastResp, failed, result, error>>
    /\ UNCHANGED <<findVars, dlVars>>
    /\ UNCHANGED heap

\* no call has been made yet
CallIdle ==
    /\ pc = "idle" /\ op = "none"
    /\ heap = <<>>
    /\ arg = None /\ arg0 = None /\ local = None /\ acc = <<>>
    /\ log = <<>> /\ lastResp = NoResponse /\ failed = NoResponse
    /\ result = None /\ error = NoError

WatchIdle ==
    /\ server = [j \in JobIds |-> "PENDING"]
    /\ timeout = 0 /\ interval = 0 /\ ii = 0 /\ nIncomplete = 0

FindIdle == pages = <<>> /\ params = <<>>

DlIdle ==
    /\ fs = <<>> /\ fs0 = <<>> /\ attempts = 0 /\ create = FALSE
    /\ idx = 0 /\ paths = <<>> /\ warns = <<>>
    /\ retried = {}

InitWatch == CallIdle /\ WatchIdle /\ FindIdle /\ DlIdle

NextWatch ==
    \/ \E t \in Targets : CallRefresh(t)
    \/ \E t \in Targets, to \in 1..MaxTimeout, iv \in 1..MaxInterval : CallWatch(t, to, iv)
    \/ WatchLoop
    \/ \E r \in FailureResponses \cup {Response(200, ServerRecord(j, st)) : j \in JobIds, st \in Statuses} :
         RefreshJob(r)
    \/ RefreshReturn
    \/ WatchCheck
    \/ WatchSleep

SpecWatch == InitWatch /\ [][NextWatch]_vars

-----------------------------------------------------------------------------
(* Properties of watch and refresh *)

CompleteStatuses == {"SUCCEEDED", "FAILED"}

\* C1: when watch returns, the value returned is the one its latest refresh
\* produced, and every job in it (the Job itself, or each job of the Batch) has
\* status SUCCEEDED or FAILED; a Batch of which a job is still incomplete is
\* never returned.
C1_WatchReturnsComplete ==
    (op = "watch" /\ pc = "returned") =>
        /\ result = Some(Refreshed(arg0, acc))
        /\ acc # <<>> => acc[Len(acc)] = from_dict(lastResp.json)
        /\ \A i \in 1..Len(JobsOf(result[1])) :
             JobsOf(result[1])[i].status_code \in CompleteStatuses

\* a Batch of two jobs returned after a round in which it was not yet complete
C1_Witness ==
    /\ op = "watch" /\ pc = "returned"
    /\ IsBatch(arg0) /\ Len(arg0.jobs) = 2
    /\ nIncomplete >= 1
    /\ result[1].jobs[1].status_code = "SUCCEEDED"
    /\ result[1].jobs[2].status_code = "FAILED"

\* C2: when every refresh round of the poll budget found the target incomplete,
\* watch returns nothing and raises HyP3Error "Timeout occurred while waiting
\* for <str of the watched object>": the Job's type and job_id, or the size and
\* status counts of the Batch.
C2_WatchTimeout ==
    (op = "watch" /\ nIncomplete = iterations_until_timeout) =>
        /\ pc \in {"sleep", "watch_loop", "raised"}
        /\ result = None
        /\ pc = "raised" =>
             /\ error.type = "HyP3Error"
             /\ error.msg[1] = "Timeout occurred while waiting for "
             /\ error.msg[2] = IF IsBatch(arg0) THEN BatchStr(local) ELSE JobStr(arg0)
             /\ IsBatch(arg0) => error.msg[2][1] = Len(arg0.jobs)

C2_Witness ==
    /\ op = "watch" /\ pc = "raised" /\ failed = NoResponse
    /\ nIncomplete = 2
    /\ ~IsBatch(arg0)

\* C3: watch(job) that finds the job incomplete k-1 times and complete the
\* k-th time has issued exactly k GETs of /jobs/{job_id}, with one sleep of
\* `interval` between consecutive GETs, and returns the Job of the k-th response.
C3_WatchJobFetchCount ==
    (op = "watch" /\ pc = "returned" /\ ~IsBatch(arg0)) =>
        LET k == nIncomplete + 1 IN
          /\ k <= iterations_until_timeout
          /\ Len(log) = 2 * k - 1
          /\ \A i \in 1..Len(log) :
               log[i] = IF i % 2 = 1 THEN GetEvent(arg0.job_id) ELSE SleepEvent(interval)
          /\ result = Some(from_dict(lastResp.json))
          /\ complete(result[1])

\* the test's case: three incomplete responses, then SUCCEEDED, four GETs
C3_Witness ==
    /\ op = "watch" /\ pc = "returned" /\ ~IsBatch(arg0)
    /\ nIncomplete = 3
    /\ Len(SelectSeq(log, LAMBDA e : e.ev = "GET")) = 4
    /\ result[1].status_code = "SUCCEEDED"

\* C6: refresh and watch never change the object they were given; refresh(Job)
\* issues one GET by the job's id and returns the Job built from the response;
\* refresh(Batch) issues one GET per member, in order, and returns a new Batch
\* of the same length whose i-th job is the Job built from the response to the
\* fetch of the i-th member's id.
C6_RefreshNewValue ==
    /\ op # "none" => arg = arg0
    /\ (op = "refresh" /\ pc = "returned") =>
         LET old == JobsOf(arg0)
             new == JobsOf(result[1]) IN
           /\ IsBatch(result[1]) = IsBatch(arg0)
           /\ Len(new) = Len(old)
           /\ log = [i \in 1..Len(old) |-> GetEvent(old[i].job_id)]
           /\ \A i \in 1..Len(old) :
                new[i] = from_dict(ServerRecord(old[i].job_id, server[old[i].job_id]))
           /\ old # <<>> => new[Len(new)] = from_dict(lastResp.json)

\* a Batch of two jobs refreshed to a value that differs from the one passed in
C6_Witness ==
    /\ op = "refresh" /\ pc = "returned"
    /\ IsBatch(arg0) /\ Len(arg0.jobs) = 2
    /\ arg0.jobs[1].job_id = 2
    /\ result[1].jobs[1].status_code = "RUNNING"
    /\ result[1].jobs[2].status_code = "SUCCEEDED"
    /\ arg = arg0

\* C8: a fetch that fails during refresh or watch ends the call at once: its
\* error is raised to the caller, nothing is returned, and the call performs
\* no further fetch and no sleep.
C8_FetchErrorPropagates ==
    failed # NoResponse =>
        /\ pc = "raised"
        /\ error = RequestError(failed)
        /\ error.type \in {"HyP3Error", "ServerError", "requests.ConnectionError"}
        /\ result = None
        /\ lastResp = failed
        \* the failed GET is the last thing the call did: every earlier round
        \* fetched each job once and slept once, this round stopped at the failure
        /\ log[Len(log)] = GetEvent(JobsOf(arg0)[Len(acc) + 1].job_id)
        /\ Len(log) = nIncomplete * (Len(JobsOf(arg0)) + 1) + Len(acc) + 1

\* the second fetch of a Batch refresh inside watch failed with a server error
C8_Witness ==
    /\ op = "watch" /\ pc = "raised"
    /\ failed.status = 500
    /\ error = ServerError
    /\ IsBatch(arg0) /\ Len(arg0.jobs) = 2
    /\ Len(acc) = 1
    /\ nIncomplete = 1

-----------------------------------------------------------------------------
(* HyP3.find_jobs *)

RECURSIVE Flatten(_)
Flatten(ss) == IF ss = <<>> THEN <<>> ELSE Head(ss) \o Flatten(Tail(ss))

RECURSIVE SumTo(_, _)
SumTo(sizes, k) == IF k = 0 THEN 0 ELSE sizes[k] + SumTo(sizes, k - 1)

\* the pages of a search result: page k holds sizes[k] jobs, ids numbered on
PagesOf(sizes) ==
    [k \in DOMAIN sizes |-> [i \in 1..sizes[k] |-> SumTo(sizes, k - 1) + i]]

PageLayouts == {PagesOf(sizes) : sizes \in UNION {[1..n -> 0..MaxPageLen] : n \in 1..MaxPages}}

FindArgs == [status_code : {None, Some("SUCCEEDED")}, name : {None, Some("name")}]

\* params: the search criteria that are not None
FindParams(args) == [k \in {k \in DOMAIN args : args[k] # None} |-> args[k][1]]

JobsUrl(query) == [path |-> "/jobs", query |-> query]
RequestEvent(method, url) == [ev |-> method, x |-> url]

\* the response to a GET of the jobs endpoint: page k, with a `next` url
\* unless it is the last page
PageResponse(k) ==
    LET st == IF "status_code" \in DOMAIN params THEN params.status_code ELSE "RUNNING"
        jobs == [i \in DOMAIN pages[k] |-> ServerRecord(pages[k][i], st)]
    IN Response(200, IF k < Len(pages)
                     THEN [jobs |-> jobs, next |-> JobsUrl([next |-> k + 1])]
                     ELSE [jobs |-> jobs])

\* what a GET of url can be answered with
GetPageResponses(url) ==
    {PageResponse(IF "next" \in DOMAIN url.query THEN url.query.next ELSE 1)}
    \cup FailureResponses

\* [Job.from_dict(job) for job in response.json()['jobs']]
JobsIn(r) == [i \in DOMAIN r.json.jobs |-> from_dict(r.json.jobs[i])]

CallFindJobs(args) ==
    /\ pc = "idle"
    /\ op' = "find_jobs"
    /\ arg' = args /\ arg0' = args
    /\ params' = FindParams(args)
    /\ pc' = "find_first"
    /\ UNCHANGED <<local, acc, log, lastResp, failed, result, error, pages>>
    /\ UNCHANGED <<watchVars, dlVars>>
    /\ UNCHANGED heap

\* response = self.session.get(.../jobs, params=params); jobs = [...]
FindFirst(r) ==
    /\ pc = "find_first"
    /\ r \in GetPageResponses(JobsUrl(params))
    /\ log' = Append(log, RequestEvent("GET", JobsUrl(params)))
    /\ lastResp' = r
    /\ IF RequestError(r) = NoError
       THEN /\ acc' = JobsIn(r)
            /\ pc' = "find_loop"
            /\ UNCHANGED <<error, failed>>
       ELSE /\ error' = RequestError(r)
            /\ failed' = r
            /\ pc' = "raised"
            /\ UNCHANGED acc
    /\ UNCHANGED <<op, arg, arg0, local, result, findVars, watchVars, dlVars>>
    /\ UNCHANGED heap

\* mutant: each page replaces the jobs collected so far
FindNextMutAssign(r) ==
    /\ pc = "find_loop"
    /\ "next" \in DOMAIN lastResp.json
    /\ r \in GetPageResponses(lastResp.json.next)
    /\ log' = Append(log, RequestEvent("GET", lastResp.json.next))
    /\ lastResp' = r
    /\ IF RequestError(r) = NoError
       THEN /\ acc' = JobsIn(r)
            /\ UNCHANGED <<pc, error, failed>>
       ELSE /\ error' = RequestError(r)
            /\ failed' = r
            /\ pc' = "raised"
            /\ UNCHANGED acc
    /\ UNCHANGED <<op, arg, arg0, local, result, findVars, watchVars, dlVars>>
    /\ UNCHANGED heap

\* while 'next' in response.json(): response = self.session.get(next_url); jobs.extend(...)
FindNext(r) ==
    /\ pc = "find_loop"
    /\ "next" \in DOMAIN lastResp.json
    /\ r \in GetPageResponses(lastResp.json.next)
    /\ log' = Append(log, RequestEvent("GET", lastResp.json.next))
    /\ lastResp' = r
    /\ IF RequestError(r) = NoError
       THEN /\ acc' = acc \o JobsIn(r)
            /\ UNCHANGED <<pc, error, failed>>
       ELSE /\ error' = RequestError(r)
            /\ failed' = r
            /\ pc' = "raised"
            /\ UNCHANGED acc
    /\ UNCHANGED <<op, arg, arg0, local, result, findVars, watchVars, dlVars>>
    /\ UNCHANGED heap

\* return Batch(jobs)
FindReturn ==
    /\ pc = "find_loop"
    /\ "next" \notin DOMAIN lastResp.json
    /\ result' = Some(Batch(acc))
    /\ pc' = "returned"
    /\ UNCHANGED <<op, arg, arg0, local, acc, log, lastResp, failed, error>>
    /\ UNCHANGED <<findVars, watchVars, dlVars>>
    /\ UNCHANGED heap

InitFind == CallIdle /\ WatchIdle /\ DlIdle /\ params = <<>> /\ pages \in PageLayouts

NextFind ==
    \/ \E args \in FindArgs : CallFindJobs(args)
    \/ \E r \in FailureResponses \cup {PageResponse(k) : k \in DOMAIN pages} : FindFirst(r)
    \/ \E r \in FailureResponses \cup {PageResponse(k) : k \in DOMAIN pages} : FindNext(r)
    \/ FindReturn

SpecFind == InitFind /\ [][NextFind]_vars

\* C7: find_jobs against a search served in P pages issues exactly P GETs, the
\* first to the jobs endpoint with the caller's criteria and no `next`, every
\* later one to the `next` url of the page before, and returns one Batch with
\* the jobs of all pages in page order.
C7_FindJobsPaging ==
    /\ op = "find_jobs" => Len(log) <= Len(pages)
    /\ (op = "find_jobs" /\ pc = "returned") =>
         /\ Len(log) = Len(pages)
         /\ log[1] = RequestEvent("GET", JobsUrl(FindParams(arg0)))
         /\ "next" \notin DOMAIN log[1].x.query
         /\ \A k \in 2..Len(pages) :
              log[k] = RequestEvent("GET", PageResponse(k - 1).json.next)
         /\ result = Some(Batch([i \in DOMAIN Flatten(pages) |->
                from_dict(ServerRecord(Flatten(pages)[i],
                    IF arg0.status_code = None THEN "RUNNING" ELSE arg0.status_code[1]))]))

\* three pages of 2, 0 and 1 jobs
C7_Witness ==
    /\ op = "find_jobs" /\ pc = "returned"
    /\ Len(pages) = 3
    /\ Len(pages[1]) = 2 /\ Len(pages[2]) = 0 /\ Len(pages[3]) = 1
    /\ Len(result[1].jobs) = 3
    /\ result[1].jobs[3].job_id = 3

-----------------------------------------------------------------------------
(* HyP3.update_jobs *)

UpdateKwargs == {[name |-> "new_name"], [name |-> "renamed"]}

JobUrl(j) == [path |-> <<"/jobs/", j>>, query |-> <<>>]
PatchEvent(j, body) == [ev |-> "PATCH", x |-> [url |-> JobUrl(j), json |-> body]]

\* the updated job record the API answers a PATCH with
UpdatedRecord(j, body) == [ServerRecord(j, server[j]) EXCEPT !.name = body.name]

PatchResponses(j, body) == {Response(200, UpdatedRecord(j, body))} \cup FailureResponses

CallUpdateJobs(t, kwargs) ==
    /\ pc = "idle"
    /\ op' = "update_jobs"
    /\ arg' = t /\ arg0' = t
    /\ params' = kwargs
    /\ acc' = <<>>
    /\ pc' = "update"
    /\ UNCHANGED <<local, log, lastResp, failed, result, error, pages>>
    /\ UNCHANGED <<watchVars, dlVars>>
    /\ UNCHANGED heap

\* mutant: a failed PATCH is skipped and the loop goes on to the next job
UpdateJobMutSkip(r) ==
    /\ pc = "update"
    /\ Len(log) < Len(JobsOf(arg))
    /\ LET j == JobsOf(arg)[Len(log) + 1].job_id IN
         /\ r \in PatchResponses(j, params)
         /\ log' = Append(log, PatchEvent(j, params))
    /\ lastResp' = r
    /\ IF RequestError(r) = NoError
       THEN /\ acc' = Append(acc, from_dict(r.json))
            /\ UNCHANGED <<pc, error, failed>>
       ELSE /\ failed' = r
            /\ UNCHANGED <<pc, error, acc>>
    /\ UNCHANGED <<op, arg, arg0, local, result, findVars, watchVars, dlVars>>
    /\ UNCHANGED heap

\* response = self.session.patch(.../jobs/{job_id}, json=kwargs) for the next job
UpdateJob(r) ==
    /\ pc = "update"
    /\ Len(acc) < Len(JobsOf(arg))
    /\ LET j == JobsOf(arg)[Len(acc) + 1].job_id IN
         /\ r \in PatchResponses(j, params)
         /\ log' = Append(log, PatchEvent(j, params))
    /\ lastResp' = r
    /\ IF RequestError(r) = NoError
       THEN /\ acc' = Append(acc, from_dict(r.json))
            /\ UNCHANGED <<pc, error, failed>>
       ELSE /\ error' = RequestError(r)
            /\ failed' = r
            /\ pc' = "raised"
            /\ UNCHANGED acc
    /\ UNCHANGED <<op, arg, arg0, local, result, findVars, watchVars, dlVars>>
    /\ UNCHANGED heap

\* return batch / return Job.from_dict(response.json())
UpdateReturn ==
    /\ pc = "update"
    /\ Len(acc) = Len(JobsOf(arg))
    /\ result' = Some(Refreshed(arg, acc))
    /\ pc' = "returned"
    /\ UNCHANGED <<op, arg, arg0, local, acc, log, lastResp, failed, error>>
    /\ UNCHANGED <<findVars, watchVars, dlVars>>
    /\ UNCHANGED heap

\* the jobs to update were submitted earlier and are in any status by now
InitUpdate ==
    /\ CallIdle /\ FindIdle /\ DlIdle
    /\ server \in [JobIds -> Statuses]
    /\ timeout = 0 /\ interval = 0 /\ ii = 0 /\ nIncomplete = 0

NextUpdate ==
    \/ \E t \in Targets, kwargs \in UpdateKwargs : CallUpdateJobs(t, kwargs)
    \/ \E r \in FailureResponses
                \cup {Response(200, UpdatedRecord(j, kwargs)) : j \in JobIds, kwargs \in UpdateKwargs} :
         UpdateJob(r)
    \/ UpdateReturn

SpecUpdate == InitUpdate /\ [][NextUpdate]_vars

\* C9: update_jobs on a Batch sends one PATCH per job, in batch order, and
\* returns a Batch of the updated jobs in that order; when the PATCH of the
\* k-th job fails its error is raised, nothing is returned and no job after
\* the k-th is PATCHed.
C9_UpdateJobsBatch ==
    (op = "update_jobs" /\ IsBatch(arg0)) =>
        /\ Len(log) <= Len(arg0.jobs)
        /\ \A i \in 1..Len(log) : log[i] = PatchEvent(arg0.jobs[i].job_id, params)
        /\ pc = "returned" =>
             /\ Len(log) = Len(arg0.jobs)
             /\ failed = NoResponse
             /\ result = Some(Batch([i \in 1..Len(arg0.jobs) |->
                    from_dict(UpdatedRecord(arg0.jobs[i].job_id, params))]))
        /\ failed # NoResponse =>
             /\ pc = "raised"
             /\ error = RequestError(failed)
             /\ result = None
             /\ Len(log) = Len(acc) + 1
        /\ pc = "raised" => failed # NoResponse

\* the PATCH of the first of two jobs failed: the second job is never PATCHed
C9_Witness ==
    /\ op = "update_jobs" /\ pc = "raised"
    /\ IsBatch(arg0) /\ Len(arg0.jobs) = 2
    /\ failed.status = 404
    /\ error.type = "HyP3Error"
    /\ Len(log) = 1

-----------------------------------------------------------------------------
(* util.download_file: one GET through a session that retries *)

Retries == 2
StatusForcelist == {429, 500, 502, 503, 504}
\* Retry.RETRY_AFTER_STATUS_CODES, and respect_retry_after_header left at its
\* default of True
RETRY_AFTER_STATUS_CODES == {413, 429, 503}

\* the statuses a file server answers with; its 413 carries a Retry-After header
DownloadStatuses == {200, 404, 413, 503}
RetryAfterSent == {413}


RetryError == [type |-> "requests.RetryError", msg |-> <<>>]
HTTPError == [type |-> "requests.HTTPError", msg |-> <<>>]

\* session.get(url) under Retry(total, status_forcelist): a response whose
\* status is in the forcelist is retried while retries are left; once they
\* are used up the adapter raises RetryError
\* Retry.is_retry for a GET: the status is in the forcelist, or retries are
\* left and the response carries Retry-After with a status that honours it
is_retry(status, total) ==
    \/ status \in StatusForcelist
    \/ total # 0 /\ status \in RetryAfterSent /\ status \in RETRY_AFTER_STATUS_CODES

RECURSIVE SessionGet(_, _, _)
SessionGet(trace, i, total) ==
    IF is_retry(trace[i], total)
    THEN IF total - 1 < 0
         THEN [exc |-> RetryError, status |-> trace[i], attempts |-> i]
         ELSE SessionGet(trace, i + 1, total - 1)
    ELSE [exc |-> NoError, status |-> trace[i], attempts |-> i]

\* the statuses the successive attempts at one url are answered with; the
\* server is not asked again after the attempt that ends the call
AttemptTraces ==
    {trace \in [1..Retries + 1 -> DownloadStatuses] :
        \A k \in DOMAIN trace : k > SessionGet(trace, 1, Retries).attempts => trace[k] = 200}

\* s.raise_for_status() on the response session.get returned
raise_for_status(status) == IF 400 <= status /\ status < 600 THEN HTTPError ELSE NoError

\* download_file(url, filepath): the exception it raises (NoError when the
\* file was written), the final status and the attempts made
download_file(trace) ==
    LET g == SessionGet(trace, 1, Retries)
    IN IF g.exc # NoError THEN g
       ELSE [exc |-> raise_for_status(g.status), status |-> g.status, attempts |-> g.attempts]

-----------------------------------------------------------------------------
(* Job.expired, Job.download_files and Batch.download_files *)

Now == 50

\* datetime.now(tz.UTC) >= self.expiration_time raises TypeError for a missing
\* or naive expiration_time, turned into HyP3SDKError
expired_raises(job) ==
    job.expiration_time = None \/ job.expiration_time[1].tzinfo = None
expired(job) == Now >= job.expiration_time[1].secs

NotADirectoryError(location) == [type |-> "NotADirectoryError", msg |-> <<location>>]
FileExistsError(location) == [type |-> "FileExistsError", msg |-> <<location>>]

FileOf(j, k) == [url |-> <<"https://foo.com/file", j, k>>, filename |-> <<"file", j, k>>, size |-> 0]

\* a SUCCEEDED job record with n files that expires at time exp
SucceededRecord(j, n, exp) ==
    [k \in DOMAIN ServerRecord(j, "SUCCEEDED") |->
        CASE k = "files" -> [i \in 1..n |-> FileOf(j, i)]
          [] k = "expiration_time" -> IsoString(exp, "+00:00")
          [] OTHER -> ServerRecord(j, "SUCCEEDED")[k]]

\* the jobs a caller may hold for job j: unexpired with 1..MaxFiles files,
\* expired, still running, failed
DlJobs(j) ==
    {from_dict(SucceededRecord(j, n, 100)) : n \in 1..MaxFiles}
    \cup {from_dict(SucceededRecord(j, 1, 20))}
    \cup {from_dict(ServerRecord(j, st)) : st \in {"RUNNING", "FAILED"}}

DlBatches ==
    UNION {{Batch(jobs) : jobs \in {js \in [1..n -> UNION {DlJobs(j) : j \in 1..n}] :
                                      \A i \in 1..n : js[i].job_id = i}} : n \in 0..MaxBatch}

Location == "dest"
PathOf(filename) == [dir |-> Location, name |-> filename]
MkdirEvent == [ev |-> "mkdir", x |-> Location]
DownloadEvent(url) == [ev |-> "GET", x |-> url]

FsStates == [dest : {"absent", "dir", "file"}, files : {{}}]

CallJobDownload(job, c) ==
    /\ pc = "idle"
    /\ op' = "job_download"
    /\ arg' = job /\ arg0' = job
    /\ create' = c
    /\ pc' = "dl_check"
    /\ UNCHANGED <<local, acc, log, lastResp, failed, result, error>>
    /\ UNCHANGED <<fs, fs0, attempts, idx, paths, warns, retried>>
    /\ UNCHANGED <<findVars, watchVars>>
    /\ UNCHANGED heap

\* mutant: Batch.download_files makes the destination itself before its loop
CallBatchDownloadMutMkdir(b, c) ==
    /\ pc = "idle"
    /\ op' = "batch_download"
    /\ arg' = b /\ arg0' = b
    /\ create' = c
    /\ pc' = "dl_check"
    /\ fs' = IF c /\ fs.dest = "absent" THEN [fs EXCEPT !.dest = "dir"] ELSE fs
    /\ log' = IF c /\ fs.dest # "file" THEN Append(log, MkdirEvent) ELSE log
    /\ UNCHANGED <<local, acc, lastResp, failed, result, error>>
    /\ UNCHANGED <<fs0, attempts, idx, paths, warns, retried>>
    /\ UNCHANGED <<findVars, watchVars>>
    /\ UNCHANGED heap

CallBatchDownload(b, c) ==
    /\ pc = "idle"
    /\ op' = "batch_download"
    /\ arg' = b /\ arg0' = b
    /\ create' = c
    /\ pc' = "dl_check"
    /\ UNCHANGED <<local, acc, log, lastResp, failed, result, error>>
    /\ UNCHANGED <<fs, fs0, attempts, idx, paths, warns, retried>>
    /\ UNCHANGED <<findVars, watchVars>>
    /\ UNCHANGED heap

\* the job whose download_files is running
CurJob == JobsOf(arg)[idx + 1]

\* Job.download_files raises e: Batch.download_files catches a HyP3SDKError,
\* prints the warning and goes on with the next job; anything else, and any
\* exception of a direct call, reaches the caller
JobRaises(e) ==
    IF op = "batch_download" /\ IsHyP3SDKError(e)
    THEN /\ warns' = Append(warns, <<"Warning: ", e.msg, ". Skipping download for ", JobStr(CurJob), ".">>)
         /\ idx' = idx + 1
         /\ pc' = "dl_check"
         /\ UNCHANGED error
    ELSE /\ error' = e
         /\ pc' = "raised"
         /\ UNCHANGED <<warns, idx>>

\* the exception Job.download_files raises before it downloads anything, or NoError
download_precheck(job) ==
    IF ~succeeded(job)
    THEN HyP3SDKError(<<"Only succeeded jobs can be downloaded; job is ", job.status_code, ".">>)
    ELSE IF expired_raises(job)
    THEN HyP3SDKError(<<"Only SUCCEEDED jobs have an expiration time">>)
    ELSE IF expired(job)
    THEN HyP3SDKError(<<"Expired jobs cannot be downloaded; job expired ",
                        job.expiration_time[1].secs, ".">>)
    ELSE IF create
    THEN IF fs.dest = "file" THEN FileExistsError(Location) ELSE NoError
    ELSE IF fs.dest # "dir" THEN NotADirectoryError(Location) ELSE NoError

\* mutant: the destination is created before the job's status is looked at
JobPrecheckMutMkdirFirst ==
    /\ pc = "dl_check"
    /\ idx < Len(JobsOf(arg))
    /\ fs' = IF create /\ fs.dest = "absent" THEN [fs EXCEPT !.dest = "dir"] ELSE fs
    /\ log' = IF create /\ fs.dest # "file" THEN Append(log, MkdirEvent) ELSE log
    /\ LET e == download_precheck(CurJob) IN
         IF e # NoError
         THEN /\ JobRaises(e)
              /\ UNCHANGED paths
         ELSE /\ pc' = "dl_files"
              /\ paths' = <<>>
              /\ UNCHANGED <<warns, idx, error>>
    /\ UNCHANGED <<op, arg, arg0, local, acc, lastResp, failed, result>>
    /\ UNCHANGED <<fs0, attempts, create, retried, findVars, watchVars>>
    /\ UNCHANGED heap

\* Job.download_files up to `downloaded_files = []`: the status and expiry
\* checks, then location.mkdir(...) or the is_dir() check
JobPrecheck ==
    /\ pc = "dl_check"
    /\ idx < Len(JobsOf(arg))
    /\ LET e == download_precheck(CurJob) IN
         IF e # NoError
         THEN /\ JobRaises(e)
              /\ UNCHANGED <<fs, log, paths>>
         ELSE /\ pc' = "dl_files"
              /\ paths' = <<>>
              /\ fs' = IF create THEN [fs EXCEPT !.dest = "dir"] ELSE fs
              /\ log' = IF create THEN Append(log, MkdirEvent) ELSE log
              /\ UNCHANGED <<warns, idx, error>>
    /\ UNCHANGED <<op, arg, arg0, local, acc, lastResp, failed, result>>
    /\ UNCHANGED <<fs0, attempts, create, retried, findVars, watchVars>>
    /\ UNCHANGED heap

\* one turn of `for file in self.files`: download_file, HTTPError turned
\* into HyP3SDKError
DownloadFile(trace) ==
    /\ pc = "dl_files"
    /\ Len(paths) < Len(CurJob.files[1])
    /\ LET file == CurJob.files[1][Len(paths) + 1]
           d == download_file(trace) IN
         /\ log' = Append(log, DownloadEvent(file.url))
         /\ attempts' = d.attempts
         /\ retried' = {trace[k] : k \in 1..(d.attempts - 1)}
         /\ IF d.exc = NoError
            THEN /\ fs' = [fs EXCEPT !.files = @ \cup {file.filename}]
                 /\ paths' = Append(paths, PathOf(file.filename))
                 /\ UNCHANGED <<pc, error, warns, idx, failed>>
            ELSE /\ failed' = Response(d.status, file.url)
                 /\ IF d.exc = HTTPError
                    THEN JobRaises(HyP3SDKError(<<"Unable to download file: ", file.url>>))
                    ELSE JobRaises(d.exc)
                 /\ UNCHANGED <<fs, paths>>
    /\ UNCHANGED <<op, arg, arg0, local, acc, lastResp, result>>
    /\ UNCHANGED <<fs0, create, findVars, watchVars>>
    /\ UNCHANGED heap

\* return downloaded_files; in a Batch: downloaded_files.extend(...) and the next job
JobDone ==
    /\ pc = "dl_files"
    /\ Len(paths) = Len(CurJob.files[1])
    /\ IF op = "job_download"
       THEN /\ result' = Some(paths)
            /\ pc' = "returned"
            /\ UNCHANGED <<acc, idx>>
       ELSE /\ acc' = acc \o paths
            /\ idx' = idx + 1
            /\ pc' = "dl_check"
            /\ UNCHANGED result
    /\ UNCHANGED <<op, arg, arg0, local, log, lastResp, failed, error>>
    /\ UNCHANGED <<fs, fs0, attempts, create, paths, warns, retried>>
    /\ UNCHANGED <<findVars, watchVars>>
    /\ UNCHANGED heap

\* Batch.download_files: return downloaded_files
BatchDownloadReturn ==
    /\ pc = "dl_check" /\ op = "batch_download"
    /\ idx = Len(arg.jobs)
    /\ result' = Some(acc)
    /\ pc' = "returned"
    /\ UNCHANGED <<op, arg, arg0, local, acc, log, lastResp, failed, error>>
    /\ UNCHANGED <<dlVars, findVars, watchVars>>
    /\ UNCHANGED heap

InitDownload ==
    /\ CallIdle /\ WatchIdle /\ FindIdle
    /\ fs \in FsStates /\ fs0 = fs
    /\ attempts = 0 /\ create = FALSE /\ idx = 0 /\ paths = <<>> /\ warns = <<>>
    /\ retried = {}

NextDownload ==
    \/ \E j \in JobIds, c \in BOOLEAN : \E job \in DlJobs(j) : CallJobDownload(job, c)
    \/ \E b \in DlBatches, c \in BOOLEAN : CallBatchDownload(b, c)
    \/ JobPrecheck
    \/ \E trace \in AttemptTraces : DownloadFile(trace)
    \/ JobDone
    \/ BatchDownloadReturn

SpecDownload == InitDownload /\ [][NextDownload]_vars

-----------------------------------------------------------------------------
(* Properties of the downloads *)

Downloading == op \in {"job_download", "batch_download"}

\* the job fails a precondition of download_files: not succeeded, or expired
Blocked(job) == ~succeeded(job) \/ expired_raises(job) \/ expired(job)

\* every file of the job is in the destination
JobWritten(job) ==
    /\ ~Blocked(job)
    /\ \A k \in DOMAIN job.files[1] : job.files[1][k].filename \in fs.files

PathsOfJob(job) == [k \in DOMAIN job.files[1] |-> PathOf(job.files[1][k].filename)]

\* the path lists of the jobs that downloaded completely, in batch order
ExpectedPaths(jobs) ==
    Flatten([i \in DOMAIN jobs |-> IF JobWritten(jobs[i]) THEN PathsOfJob(jobs[i]) ELSE <<>>])

\* the jobs that did not download completely, in batch order
SkippedJobs(jobs) == SelectSeq(jobs, LAMBDA job : ~JobWritten(job))

GetPositions == {i \in DOMAIN log : log[i].ev = "GET"}

\* C4 (as claimed): Batch.download_files is never ended by one job's failure,
\* a failed file download included: it returns the path lists of the jobs
\* that downloaded completely, in batch order, and has warned once, naming
\* the job, for every other job.
C4_BatchDownloadNeverAborts ==
    op = "batch_download" =>
        /\ (pc = "raised" => failed = NoResponse)
        /\ (pc = "returned" =>
              /\ result = Some(ExpectedPaths(arg0.jobs))
              /\ Len(warns) = Len(SkippedJobs(arg0.jobs))
              /\ \A i \in DOMAIN warns :
                   warns[i][4] = JobStr(SkippedJobs(arg0.jobs)[i]))

\* what the code does: a download that ends in RetryError ends the batch too
BatchDownloadTolerance ==
    op = "batch_download" =>
        /\ (pc = "raised" /\ failed # NoResponse) =>
              (error = RetryError /\ failed.status \in StatusForcelist)
        /\ (pc = "returned" =>
              /\ result = Some(ExpectedPaths(arg0.jobs))
              /\ Len(warns) = Len(SkippedJobs(arg0.jobs))
              /\ \A i \in DOMAIN warns :
                   warns[i][4] = JobStr(SkippedJobs(arg0.jobs)[i]))

\* C10 (as claimed): every failed download of one of a job's files makes
\* Job.download_files raise HyP3SDKError "Unable to download file: <url>".
C10_DownloadFailureTyped ==
    (op = "job_download" /\ failed # NoResponse) =>
        /\ pc = "raised"
        /\ error = HyP3SDKError(<<"Unable to download file: ", failed.json>>)

\* what the code does: only a response that raise_for_status rejects is
\* turned into HyP3SDKError; retries used up surface as requests' RetryError
DownloadFailureKinds ==
    (op = "job_download" /\ failed # NoResponse) =>
        /\ pc = "raised"
        /\ error = IF failed.status \in StatusForcelist
                   THEN RetryError
                   ELSE HyP3SDKError(<<"Unable to download file: ", failed.json>>)
        /\ failed.status \in StatusForcelist => attempts = Retries + 1

\* C5: Job.download_files checks before it acts. A job that is not succeeded
\* or is expired raises HyP3SDKError with no request made and the file system
\* untouched; with create false and a destination that is no directory it
\* raises NotADirectoryError with no request made, also out of
\* Batch.download_files; with create true the destination is made a directory
\* before the first download starts.
C5_DownloadFailsFast ==
    Downloading =>
        /\ (op = "job_download" /\ Blocked(arg0) /\ pc # "dl_check") =>
              /\ pc = "raised"
              /\ error.type = "HyP3SDKError"
              /\ log = <<>>
              /\ fs = fs0
        /\ (~create /\ fs0.dest # "dir") =>
              /\ GetPositions = {}
              /\ fs = fs0
              /\ (op = "job_download" /\ ~Blocked(arg0) /\ pc # "dl_check") =>
                    (pc = "raised" /\ error = NotADirectoryError(Location))
              /\ (op = "batch_download" /\ pc = "raised") =>
                    error = NotADirectoryError(Location)
              /\ (op = "batch_download" /\ pc = "returned") =>
                    \A i \in DOMAIN arg0.jobs : Blocked(arg0.jobs[i])
        /\ GetPositions # {} => fs.dest = "dir"
        /\ create => \A g \in GetPositions : \E m \in 1..(g - 1) : log[m] = MkdirEvent

\* create is true, the destination did not exist, both files were downloaded
C5_Witness ==
    /\ op = "job_download" /\ pc = "returned"
    /\ create /\ fs0.dest = "absent"
    /\ Len(result[1]) = 2
    /\ log[1] = MkdirEvent
    /\ fs.dest = "dir"

\* C29: Batch.download_files on a batch in which no job is both succeeded
\* and unexpired, the empty batch included, returns an empty list, makes no
\* request and leaves the file system as it was, create or not: the
\* destination is made only once a job has passed its download preconditions.
C29_NothingToDownload ==
    op = "batch_download" =>
        /\ (\A i \in DOMAIN arg0.jobs : Blocked(arg0.jobs[i])) =>
              /\ log = <<>>
              /\ fs = fs0
              /\ pc # "raised"
              /\ pc = "returned" =>
                    /\ result = Some(<<>>)
                    /\ Len(warns) = Len(arg0.jobs)
        /\ (fs # fs0 \/ \E m \in DOMAIN log : log[m] = MkdirEvent) =>
              \E i \in 1..Len(arg0.jobs) :
                  /\ i <= idx + 1
                  /\ ~Blocked(arg0.jobs[i])

\* two jobs, one running and one expired, create is true and the destination
\* does not exist: the call has returned
C29_Witness ==
    /\ op = "batch_download" /\ pc = "returned"
    /\ create /\ fs0.dest = "absent" /\ fs.dest = "absent"
    /\ Len(arg0.jobs) = 2
    /\ ~succeeded(arg0.jobs[1])
    /\ succeeded(arg0.jobs[2]) /\ expired(arg0.jobs[2])
    /\ result = Some(<<>>)
    /\ Len(warns) = 2

\* C11 (as claimed): within one download_file call only a response whose
\* status is 429, 500, 502, 503 or 504 is answered with another attempt, a
\* 404 never is, a call makes at most retries + 1 attempts, the retries are
\* used up only by the attempts at this one file, and the polling loop's
\* counters are not touched.
C11_RetryLocalToFile ==
    Downloading =>
        /\ retried \subseteq StatusForcelist
        /\ 404 \notin retried
        /\ attempts <= Retries + 1
        /\ error = RetryError => attempts = Retries + 1
        /\ ii = 0 /\ nIncomplete = 0 /\ timeout = 0 /\ interval = 0

\* what the code does: a 413 that carries Retry-After is retried as well,
\* while retries are left
RetryBudget ==
    Downloading =>
        /\ retried \subseteq StatusForcelist \cup (RetryAfterSent \cap RETRY_AFTER_STATUS_CODES)
        /\ 404 \notin retried
        /\ attempts <= Retries + 1
        /\ error = RetryError => (attempts = Retries + 1 /\ failed.status \in StatusForcelist)
        /\ (pc = "raised" /\ failed # NoResponse /\ failed.status = 413) =>
              (attempts = Retries + 1 /\ error.type # "requests.RetryError")
        /\ ii = 0 /\ nIncomplete = 0 /\ timeout = 0 /\ interval = 0

-----------------------------------------------------------------------------
(* Further properties of watch *)

RECURSIVE SleepSum(_)
SleepSum(events) ==
    IF events = <<>> THEN 0
    ELSE (IF Head(events).ev = "sleep" THEN Head(events).x ELSE 0) + SleepSum(Tail(events))

\* C12 (as claimed): every sleep of a watch call lasts `interval` seconds and
\* the sleeps of one call never add up to more than `timeout` seconds.
C12_WatchSleepWithinTimeout ==
    op = "watch" =>
        /\ \A i \in DOMAIN log : log[i].ev = "sleep" => log[i].x = interval
        /\ SleepSum(log) <= timeout

\* what the code does: one sleep of `interval` after each incomplete round, up
\* to ceil(timeout / interval) rounds, which passes `timeout` when it is no
\* multiple of `interval`
WatchSleepTotal ==
    op = "watch" =>
        /\ \A i \in DOMAIN log : log[i].ev = "sleep" => log[i].x = interval
        /\ SleepSum(log) = ii * interval
        /\ SleepSum(log) <= iterations_until_timeout * interval
        /\ SleepSum(log) < timeout + interval
        /\ timeout % interval = 0 => SleepSum(log) <= timeout

GetCount == Len(SelectSeq(log, LAMBDA e : e.ev = "GET"))

\* C13: the fetches of a watch call come one after the other, each answered
\* before the next is issued, and over a server whose jobs only move
\* PENDING -> RUNNING -> SUCCEEDED or FAILED a job seen SUCCEEDED or FAILED in
\* one refresh of the call is never seen PENDING or RUNNING in a later one.
C13_SequentialMonotone ==
    op = "watch" =>
        LET old == JobsOf(local)
            n == Len(JobsOf(arg0)) IN
          \* the fetches made so far: whole rounds, then this round's answered
          \* fetches and at most the one that failed
          /\ GetCount = ii * n
                        + (IF pc \in {"refresh", "sleep", "returned"} \/ failed # NoResponse
                           THEN Len(acc) + (IF failed # NoResponse THEN 1 ELSE 0)
                           ELSE 0)
          /\ \A i \in 1..Len(acc) :
               /\ acc[i].job_id = old[i].job_id
               /\ acc[i].status_code \in ServerNext(old[i].status_code)
               /\ old[i].status_code \in CompleteStatuses =>
                    acc[i].status_code = old[i].status_code
          /\ \A i \in 1..Len(acc) : server[acc[i].job_id] \in ServerNext(acc[i].status_code)

\* job 1 was seen SUCCEEDED in the first round while job 2 was still RUNNING,
\* and has been fetched again in the second round
C13_Witness ==
    /\ op = "watch" /\ pc = "refresh"
    /\ IsBatch(local) /\ Len(local.jobs) = 2
    /\ nIncomplete = 1 /\ ii = 1
    /\ local.jobs[1].status_code = "SUCCEEDED"
    /\ local.jobs[2].status_code = "RUNNING"
    /\ Len(acc) = 1
    /\ acc[1].status_code = "SUCCEEDED"

SleepCount == Len(SelectSeq(log, LAMBDA e : e.ev = "sleep"))

\* a watch call none of whose fetches has failed
Watching == op = "watch" /\ failed = NoResponse

\* the rounds of a watch call and its sleeps: a returning call has run
\* 1..ceil(timeout/interval) rounds, the last one complete and not followed
\* by a sleep; a call that times out has run ceil(timeout/interval) rounds
\* and has slept after each, the last one included; there is one sleep for
\* each round that found the target incomplete, and one fetch per job and round
WatchRounds ==
    Watching =>
        LET n == Len(JobsOf(arg0)) IN
          /\ nIncomplete <= iterations_until_timeout
          /\ SleepCount = (IF pc = "sleep" THEN nIncomplete - 1 ELSE nIncomplete)
          /\ pc = "returned" =>
                /\ IsComplete(result[1])
                /\ 1 <= nIncomplete + 1 /\ nIncomplete + 1 <= iterations_until_timeout
                /\ GetCount = (nIncomplete + 1) * n
                /\ log # <<>> => log[Len(log)].ev = "GET"
          /\ pc = "raised" =>
                /\ error = TimeoutError(local)
                /\ nIncomplete = iterations_until_timeout
                /\ nIncomplete >= 1
                /\ GetCount = nIncomplete * n
                /\ log[Len(log)] = SleepEvent(interval)

\* the steps a watch call can still take: none once it has returned or
\* raised, and otherwise what is left of this round, the rounds after it
\* and the raise of the timeout error
WatchStepsLeft ==
    LET n == Len(JobsOf(arg0))
        rounds == (iterations_until_timeout - ii) * (n + 3) + 1 IN
      CASE pc = "watch_loop" -> rounds
        [] pc = "refresh" -> rounds - 1 - Len(acc)
        [] pc = "sleep" -> rounds - 2 - n
        [] OTHER -> 0

\* C28: for positive timeout and interval, and when every fetch is answered,
\* each watch call ends, by returning or by raising the timeout error, after
\* at least one and at most ceil(timeout/interval) refresh rounds; it sleeps
\* once after every round that found the target incomplete, the last round
\* before the timeout error included, and never after a round that found it
\* complete
C28_WatchTerminates ==
    /\ []WatchRounds
    /\ [](op = "watch" => WatchStepsLeft >= 0)
    /\ [][op = "watch" => WatchStepsLeft' < WatchStepsLeft]_vars

\* a watch call has timed out after two rounds and two sleeps
C28_Witness ==
    /\ Watching /\ pc = "raised"
    /\ error = TimeoutError(local)
    /\ nIncomplete = 2 /\ SleepCount = 2

-----------------------------------------------------------------------------
(* Job.expired, Job.to_dict, Batch.any_expired, Batch.filter_jobs,         *)
(* Batch.complete and Batch.succeeded, called on the Jobs a caller can hold *)

\* expiration_time strings: in the past, in the future, in the future without a zone
ExpirationStrings == {IsoString(20, "+00:00"), IsoString(100, "+00:00"), IsoString(100, "")}

\* job records as from_dict takes them: any status, with or without
\* expiration_time, name and job_parameters
JobRecords(j) ==
    {[k \in {"job_type", "job_id", "request_time", "status_code", "user_id"} \cup opt |->
        CASE k = "job_type" -> "RTC_GAMMA"
          [] k = "job_id" -> j
          [] k = "request_time" -> IsoString(10, "+00:00")
          [] k = "status_code" -> st
          [] k = "user_id" -> "user"
          [] k = "name" -> "name"
          [] k = "job_parameters" -> [granules |-> <<"g1">>]
          [] k = "expiration_time" -> exp] :
      st \in Statuses, exp \in ExpirationStrings,
      opt \in SUBSET {"name", "job_parameters", "expiration_time"}}

AnyJobs(j) == {from_dict(r) : r \in JobRecords(j)}

\* the Batches of the queries: job i has id i, name and job_parameters
QueryJobs(j) == {job \in AnyJobs(j) : job.name # None /\ job.job_parameters # None}
QueryBatches ==
    UNION {{Batch(jobs) : jobs \in {js \in [1..n -> UNION {QueryJobs(j) : j \in 1..n}] :
                                      \A i \in 1..n : js[i].job_id = i}} : n \in 0..MaxBatch}

\* what a call gives back: the exception it raised, or NoError and its value
Raised(e) == [exc |-> e, value |-> None]
Returned(v) == [exc |-> NoError, value |-> v]

\* Job.expired
job_expired(job) ==
    IF expired_raises(job)
    THEN Raised(HyP3SDKError(<<"Only SUCCEEDED jobs have an expiration time">>))
    ELSE Returned(expired(job))

\* datetime.isoformat(timespec='seconds')
isoformat(dt) == IsoString(dt.secs, IF dt.tzinfo = None THEN "" ELSE "+00:00")

attributes_for_resubmit == {"name", "job_parameters", "job_type"}
OptionalAttributes ==
    {"name", "job_parameters", "files", "logs", "browse_images", "thumbnail_images",
     "expiration_time"}

\* mutant: the for_resubmit flag is ignored
ToDictMutAllKeys(job, for_resubmit) ==
    LET present == {k \in DOMAIN job : k \notin OptionalAttributes \/ job[k] # None}
    IN [k \in present |->
          CASE k = "request_time" -> isoformat(job[k])
            [] k = "expiration_time" -> isoformat(job[k][1])
            [] k \in OptionalAttributes -> job[k][1]
            [] OTHER -> job[k]]

\* Job.to_dict: the attributes that are not None, datetimes as ISO strings
to_dict(job, for_resubmit) ==
    LET keys_to_process == IF for_resubmit THEN attributes_for_resubmit ELSE DOMAIN job
        present == {k \in keys_to_process : k \notin OptionalAttributes \/ job[k] # None}
    IN [k \in present |->
          CASE k = "request_time" -> isoformat(job[k])
            [] k = "expiration_time" -> isoformat(job[k][1])
            [] k \in OptionalAttributes -> job[k][1]
            [] OTHER -> job[k]]

\* submit_prepared_jobs: the payload POSTed for one prepared job dictionary
SubmitPayload(prepared_job) == [jobs |-> <<prepared_job>>]

\* Batch.any_expired: the loop over self.jobs
RECURSIVE any_expired(_)
any_expired(jobs) ==
    IF jobs = <<>> THEN FALSE
    ELSE IF job_expired(Head(jobs)).exc # NoError THEN any_expired(Tail(jobs))
    ELSE IF job_expired(Head(jobs)).value THEN TRUE
    ELSE any_expired(Tail(jobs))

FilterFlags == [succeeded : BOOLEAN, running : BOOLEAN, failed : BOOLEAN, include_expired : BOOLEAN]
DefaultFlags == [succeeded |-> TRUE, running |-> TRUE, failed |-> FALSE, include_expired |-> TRUE]

\* Batch.filter_jobs: the loop over self.jobs, with the list filtered_jobs
RECURSIVE filter_loop(_, _, _)
filter_loop(jobs, filtered_jobs, flags) ==
    IF jobs = <<>> THEN Returned(Batch(filtered_jobs))
    ELSE LET job == Head(jobs) IN
      IF succeeded(job) /\ flags.succeeded
      THEN IF flags.include_expired
           THEN filter_loop(Tail(jobs), Append(filtered_jobs, job), flags)
           ELSE IF job_expired(job).exc # NoError
           THEN Raised(job_expired(job).exc)
           ELSE IF ~job_expired(job).value
           THEN filter_loop(Tail(jobs), Append(filtered_jobs, job), flags)
           ELSE filter_loop(Tail(jobs), filtered_jobs, flags)
      ELSE IF running(job) /\ flags.running
      THEN filter_loop(Tail(jobs), Append(filtered_jobs, job), flags)
      ELSE IF job_failed(job) /\ flags.failed
      THEN filter_loop(Tail(jobs), Append(filtered_jobs, job), flags)
      ELSE filter_loop(Tail(jobs), filtered_jobs, flags)

filter_jobs(b, flags) == filter_loop(b.jobs, <<>>, flags)

\* a call of a method of the Job or Batch x with arguments p that gives back out
Query(name, x, p, out) ==
    /\ pc = "idle"
    /\ op' = name
    /\ arg' = x /\ arg0' = x
    /\ params' = p
    /\ IF out.exc = NoError
       THEN /\ result' = Some(out.value)
            /\ pc' = "returned"
            /\ UNCHANGED error
       ELSE /\ error' = out.exc
            /\ pc' = "raised"
            /\ UNCHANGED result
    /\ UNCHANGED <<local, acc, log, lastResp, failed, pages, watchVars, dlVars, heap>>

CallExpired(job) == Query("expired", job, <<>>, job_expired(job))
CallToDict(job, for_resubmit) ==
    Query("to_dict", job, [for_resubmit |-> for_resubmit], Returned(to_dict(job, for_resubmit)))
CallAnyExpired(b) == Query("any_expired", b, <<>>, Returned(any_expired(b.jobs)))
CallFilterJobs(b, flags) == Query("filter_jobs", b, flags, filter_jobs(b, flags))
CallBatchComplete(b) == Query("batch_complete", b, <<>>, Returned(batch_complete(b)))
CallBatchSucceeded(b) == Query("batch_succeeded", b, <<>>, Returned(batch_succeeded(b)))

\* a Job whose status_code is none of the four the API documents
UnknownStatusJob(j) == [from_dict(ServerRecord(j, "RUNNING")) EXCEPT !.status_code = "QUEUED"]

\* job.succeeded(), job.failed(), job.complete() and job.running() on one Job
CallStatusPredicates(job) ==
    Query("status_predicates", job, <<>>,
          Returned([succeeded |-> succeeded(job), failed |-> job_failed(job),
                    complete |-> complete(job), running |-> running(job)]))

\* the argument n of chunk: an int, or another number such as 10.0
PyInt(k) == [type |-> "int", value |-> k]
PyFloat(k) == [type |-> "float", value |-> k]
ChunkSizes == {PyInt(k) : k \in -1..(MaxSeqLen + 1)} \cup {PyFloat(2)}
ChunkSeqs == {[i \in 1..len |-> i] : len \in 0..MaxSeqLen}

ChunkErrorMessage(n) == <<"n must be a positive integer: ", n.value>>

\* for i in range(0, len(itr), n): yield itr[i:i + n]
RECURSIVE chunk_loop(_, _, _)
chunk_loop(itr, i, n) ==
    IF i >= Len(itr) THEN <<>>
    ELSE <<SubSeq(itr, i + 1, IF i + n < Len(itr) THEN i + n ELSE Len(itr))>>
         \o chunk_loop(itr, i + n, n)

\* util.chunk, consumed by list(...): TypeError for an n that is no int
chunk(itr, n) ==
    IF n.type # "int" THEN Raised(TypeError(ChunkErrorMessage(n)))
    ELSE IF n.value < 1 THEN Raised(ValueError(ChunkErrorMessage(n)))
    ELSE Returned(chunk_loop(itr, 0, n.value))

\* util.chunk as the flat hyp3_sdk package has it: one test, ValueError
chunk_flat(itr, n) ==
    IF n.type # "int" \/ n.value < 1 THEN Raised(ValueError(ChunkErrorMessage(n)))
    ELSE Returned(chunk_loop(itr, 0, n.value))

\* list(util.chunk(itr, n)), with either of the two util modules
CallChunk(itr, n) ==
    \E out \in {chunk(itr, n), chunk_flat(itr, n)} : Query("chunk", itr, n, out)

InitJobs == CallIdle /\ WatchIdle /\ FindIdle /\ DlIdle

\* every method is called on an object the caller holds, once no call is running
NextJobs ==
    /\ pc = "idle"
    /\ \/ \E j \in JobIds : \E job \in AnyJobs(j) : CallExpired(job)
       \/ \E j \in JobIds, for_resubmit \in BOOLEAN : \E job \in AnyJobs(j) : CallToDict(job, for_resubmit)
       \/ \E b \in QueryBatches : CallAnyExpired(b)
       \/ \E b \in QueryBatches, flags \in FilterFlags : CallFilterJobs(b, flags)
       \/ \E b \in QueryBatches : CallBatchComplete(b)
       \/ \E b \in QueryBatches : CallBatchSucceeded(b)
       \/ \E j \in JobIds : \E job \in AnyJobs(j) \cup {UnknownStatusJob(j)} : CallStatusPredicates(job)
       \/ \E itr \in ChunkSeqs, n \in ChunkSizes : CallChunk(itr, n)

SpecJobs == InitJobs /\ [][NextJobs]_vars

-----------------------------------------------------------------------------
(* Properties of the Job and Batch queries *)

HasExpiration(job) == job.expiration_time # None /\ job.expiration_time[1].tzinfo # None
Expired(job) == HasExpiration(job) /\ Now >= job.expiration_time[1].secs

\* C14 (as claimed): Job.expired() raises HyP3SDKError for every Job whose
\* status_code is not SUCCEEDED, whatever its other fields hold.
C14_ExpiredRaisesUnlessSucceeded ==
    (op = "expired" /\ arg0.status_code # "SUCCEEDED") =>
        (pc = "raised" /\ error.type = "HyP3SDKError")

\* what the code does: expired() never looks at status_code; it raises when
\* expiration_time is missing or has no time zone, and compares otherwise
ExpiredLooksAtExpirationOnly ==
    op = "expired" =>
        IF HasExpiration(arg0)
        THEN pc = "returned" /\ result = Some(Now >= arg0.expiration_time[1].secs)
        ELSE /\ pc = "raised"
             /\ error = HyP3SDKError(<<"Only SUCCEEDED jobs have an expiration time">>)

\* C15 (as claimed): Batch.any_expired() never raises and returns true iff
\* some job of the Batch is both succeeded and expired.
C15_AnyExpiredIff ==
    op = "any_expired" =>
        /\ pc = "returned"
        /\ result = Some(\E i \in DOMAIN arg0.jobs :
                            arg0.jobs[i].status_code = "SUCCEEDED" /\ Expired(arg0.jobs[i]))

\* what the code does: it never raises, skips the jobs whose expired() raises
\* and returns true iff expired() is true for some job, succeeded or not
AnyExpiredScan ==
    op = "any_expired" =>
        /\ pc = "returned"
        /\ result = Some(\E i \in DOMAIN arg0.jobs : Expired(arg0.jobs[i]))

\* the condition of the claim for a job to be in the filtered Batch
Included(job, flags) ==
    \/ job.status_code = "SUCCEEDED" /\ flags.succeeded
         /\ (flags.include_expired \/ ~Expired(job))
    \/ job.status_code \in {"RUNNING", "PENDING"} /\ flags.running
    \/ job.status_code = "FAILED" /\ flags.failed

\* C16 (as claimed): for every Batch and all four flags filter_jobs returns a
\* Batch of the jobs that satisfy the inclusion condition, in their original
\* order and once each; the default call gives the SUCCEEDED, RUNNING and
\* PENDING jobs.
C16_FilterJobs ==
    op = "filter_jobs" =>
        /\ pc = "returned"
        /\ result = Some(Batch(SelectSeq(arg0.jobs, LAMBDA job : Included(job, params))))
        /\ params = DefaultFlags =>
             result = Some(Batch(SelectSeq(arg0.jobs,
                        LAMBDA job : job.status_code \in {"SUCCEEDED", "RUNNING", "PENDING"})))

\* what the code does: with include_expired false, a succeeded job whose
\* expired() raises makes filter_jobs raise; otherwise the claim's Batch
FilterJobsOrRaise ==
    op = "filter_jobs" =>
        IF params.succeeded /\ ~params.include_expired
           /\ \E i \in DOMAIN arg0.jobs :
                arg0.jobs[i].status_code = "SUCCEEDED" /\ ~HasExpiration(arg0.jobs[i])
        THEN /\ pc = "raised"
             /\ error = HyP3SDKError(<<"Only SUCCEEDED jobs have an expiration time">>)
        ELSE /\ pc = "returned"
             /\ result = Some(Batch(SelectSeq(arg0.jobs, LAMBDA job : Included(job, params))))

\* C17: Batch.complete() is true iff every job is SUCCEEDED or FAILED,
\* Batch.succeeded() is true iff every job is SUCCEEDED, both are true for the
\* empty Batch, and a Batch that succeeded is complete.
C17_BatchCompleteSucceeded ==
    /\ op = "batch_complete" =>
         /\ pc = "returned"
         /\ result = Some(\A i \in DOMAIN arg0.jobs :
                             arg0.jobs[i].status_code \in CompleteStatuses)
         /\ arg0.jobs = <<>> => result = Some(TRUE)
    /\ op = "batch_succeeded" =>
         /\ pc = "returned"
         /\ result = Some(\A i \in DOMAIN arg0.jobs : arg0.jobs[i].status_code = "SUCCEEDED")
         /\ arg0.jobs = <<>> => result = Some(TRUE)
         /\ result = Some(TRUE) => batch_complete(arg0)

\* a Batch whose first job FAILED and whose second SUCCEEDED has not succeeded
C17_Witness ==
    /\ op = "batch_succeeded" /\ pc = "returned"
    /\ Len(arg0.jobs) = 2
    /\ arg0.jobs[1].status_code = "FAILED"
    /\ arg0.jobs[2].status_code = "SUCCEEDED"
    /\ result = Some(FALSE)
    /\ batch_complete(arg0)

\* C20: to_dict(for_resubmit=True) holds job_type and nothing but name,
\* job_parameters and job_type: no job_id, status_code, timestamp or files;
\* for a Job with a name and job_parameters it holds exactly the three, and the
\* submission payload built from it carries no job_id.
C20_ResubmitDict ==
    (op = "to_dict" /\ params.for_resubmit) =>
        /\ pc = "returned"
        /\ LET d == result[1] IN
             /\ DOMAIN d \subseteq {"name", "job_parameters", "job_type"}
             /\ "job_type" \in DOMAIN d /\ d.job_type = arg0.job_type
             /\ DOMAIN d \cap {"job_id", "status_code", "request_time", "expiration_time",
                               "files"} = {}
             /\ (arg0.name # None /\ arg0.job_parameters # None) =>
                  DOMAIN d = {"name", "job_parameters", "job_type"}
             /\ "job_id" \notin DOMAIN SubmitPayload(d).jobs[1]
             /\ Len(SubmitPayload(d).jobs) = 1

\* a fetched SUCCEEDED job with an expiration time, serialized for resubmission
C20_Witness ==
    /\ op = "to_dict" /\ pc = "returned" /\ params.for_resubmit
    /\ arg0.status_code = "SUCCEEDED" /\ arg0.expiration_time # None
    /\ arg0.job_id = 2
    /\ DOMAIN result[1] = {"name", "job_parameters", "job_type"}
    /\ result[1].name = "name"

\* C26: for every Job and status_code, complete() is succeeded() or
\* failed(), running() is not complete(), succeeded() and failed() are never
\* both true, and PENDING and RUNNING give running() true and complete() false
C26_StatusPredicates ==
    (op = "status_predicates" /\ pc = "returned") =>
        LET v == result[1] IN
          /\ v.complete = (v.succeeded \/ v.failed)
          /\ v.running = ~v.complete
          /\ ~(v.succeeded /\ v.failed)
          /\ v.succeeded = (arg.status_code = "SUCCEEDED")
          /\ v.failed = (arg.status_code = "FAILED")
          /\ arg.status_code \in {"PENDING", "RUNNING"} => (v.running /\ ~v.complete)

\* the predicates of a PENDING job have been evaluated
C26_Witness ==
    /\ op = "status_predicates" /\ pc = "returned"
    /\ arg.status_code = "PENDING"
    /\ result[1].running

\* the slices are consecutive slices of itr of n items each, the last of 1..n
ChunkedBy(slices, itr, n) ==
    /\ Flatten(slices) = itr
    /\ Len(slices) = Ceil(Len(itr), n)
    /\ \A k \in DOMAIN slices :
         /\ k < Len(slices) => Len(slices[k]) = n
         /\ 1 <= Len(slices[k]) /\ Len(slices[k]) <= n

\* C27: chunk(seq, n) with a positive integer n yields consecutive slices of
\* seq whose concatenation is seq, each of n items but the last, which has
\* 1..n items; with an n that is 0, negative or not an integer it raises ValueError
C27_Chunk ==
    op = "chunk" =>
        IF params.type = "int" /\ params.value >= 1
        THEN pc = "returned" /\ ChunkedBy(result[1], arg, params.value)
        ELSE pc = "raised" /\ error.type = "ValueError"

\* what the code does: the same, except that an n that is not an int raises
\* TypeError in one of the two util modules and ValueError in the other
ChunkOutcome ==
    op = "chunk" =>
        IF params.type = "int" /\ params.value >= 1
        THEN pc = "returned" /\ ChunkedBy(result[1], arg, params.value)
        ELSE /\ pc = "raised"
             /\ error.type = "ValueError" \/ (params.type # "int" /\ error.type = "TypeError")
             /\ error.msg = ChunkErrorMessage(params)

-----------------------------------------------------------------------------
(* Batch composition and mutation: Batch(jobs), +, +=, item assignment,    *)
(* item deletion and filter_jobs, on objects that may share lists and Jobs  *)

\* The caller holds a list `lst` and the Batch variables a and b.  A Batch
\* object holds a reference to a list object, a list holds references to Job
\* objects: heap.lists[l] is list object l, heap.jobs[r] is Job object r,
\* heap.batches[x] is the list that the Batch named x holds in self.jobs (0
\* while x is not assigned), heap.steps counts the statements run.
BatchNames == {"a", "b"}
JobRefs == {[ref |-> r] : r \in JobIds}
LstId == 1

\* mutant: __add__ puts the other operand's jobs first
BatchAddMutPrepend(x, other) ==
    IF IsBatch(other) THEN Returned(Batch(other.jobs \o x.jobs))
    ELSE Returned(Batch(<<other>> \o x.jobs))

\* isinstance(other, Job): a Job, or a reference to a Job object
IsJob(other) == "job_id" \in DOMAIN other \/ "ref" \in DOMAIN other

\* operands that are neither a Job nor a Batch: a list of Jobs, None, a string
OtherOperands ==
    {[type |-> "list", value |-> <<[ref |-> 1]>>], [type |-> "NoneType"], [type |-> "str"]}

UnsupportedOperand(operator, other) ==
    TypeError(<<"unsupported operand type(s) for ", operator, ": ", "Batch", " and ", other.type>>)

\* Batch.__add__: a new Batch holding a new list, or TypeError
batch_add(x, other) ==
    IF IsBatch(other) THEN Returned(Batch(x.jobs \o other.jobs))
    ELSE IF IsJob(other) THEN Returned(Batch(x.jobs \o <<other>>))
    ELSE Raised(UnsupportedOperand("+", other))

\* mutant: no else branch, whatever is not a Batch is added as a Job
BatchIAddMutNoElse(jobs, other) ==
    IF IsBatch(other) THEN Returned(jobs \o other.jobs) ELSE Returned(jobs \o <<other>>)

\* Batch.__iadd__: the list self.jobs after `self.jobs += ...`, or TypeError
batch_iadd(jobs, other) ==
    IF IsBatch(other) THEN Returned(jobs \o other.jobs)
    ELSE IF IsJob(other) THEN Returned(jobs \o <<other>>)
    ELSE Raised(UnsupportedOperand("+=", other))

Assigned(h, x) == h.batches[x] # 0
\* the Batch named x, as the list of Job references it holds
BatchOf(h, x) == Batch(h.lists[h.batches[x]])
\* list.pop(i) leaves the other items in order
Pop(jobs, i) == [k \in 1..(Len(jobs) - 1) |-> IF k < i THEN jobs[k] ELSE jobs[k + 1]]

\* a statement of the caller has run
Statement(name, target, operands, h) ==
    /\ pc = "idle"
    /\ heap.steps < MaxStatements
    /\ op' = name
    /\ arg' = target
    /\ params' = operands
    /\ arg0' = heap
    /\ heap' = [h EXCEPT !.steps = heap.steps + 1]
    /\ UNCHANGED <<pc, local, acc, log, lastResp, failed, result, error, pages>>
    /\ UNCHANGED <<watchVars, dlVars>>

\* a statement of the caller has raised e: the run ends there
FailedStatement(name, target, operands, e) ==
    /\ pc = "idle"
    /\ heap.steps < MaxStatements
    /\ op' = name
    /\ arg' = target
    /\ params' = operands
    /\ arg0' = heap
    /\ heap' = [heap EXCEPT !.steps = heap.steps + 1]
    /\ error' = e
    /\ pc' = "raised"
    /\ UNCHANGED <<local, acc, log, lastResp, failed, result, pages>>
    /\ UNCHANGED <<watchVars, dlVars>>

\* x = Batch(lst): self.jobs = jobs
NewBatch(x) ==
    Statement("Batch", x, [jobs |-> "lst"], [heap EXCEPT !.batches[x] = LstId])

\* b = x + y, y a Batch
Add(x, y) ==
    /\ Assigned(heap, x) /\ Assigned(heap, y)
    /\ Statement("add", "b", [x |-> x, other |-> y],
                 [heap EXCEPT !.lists = Append(@, batch_add(BatchOf(heap, x), BatchOf(heap, y)).value.jobs),
                              !.batches["b"] = Len(heap.lists) + 1])

\* b = x + job
AddJob(x, job) ==
    /\ Assigned(heap, x)
    /\ Statement("add_job", "b", [x |-> x, other |-> job],
                 [heap EXCEPT !.lists = Append(@, batch_add(BatchOf(heap, x), job).value.jobs),
                              !.batches["b"] = Len(heap.lists) + 1])

\* x += y, y a Batch: self.jobs is extended in place
IAdd(x, y) ==
    /\ Assigned(heap, x) /\ Assigned(heap, y)
    /\ Statement("iadd", x, [x |-> x, other |-> y],
                 [heap EXCEPT !.lists[heap.batches[x]] = batch_iadd(@, BatchOf(heap, y)).value])

\* x += job
IAddJob(x, job) ==
    /\ Assigned(heap, x)
    /\ Statement("iadd_job", x, [x |-> x, other |-> job],
                 [heap EXCEPT !.lists[heap.batches[x]] = batch_iadd(@, job).value])

\* b = x + other, other neither a Job nor a Batch
AddOther(x, other) ==
    /\ Assigned(heap, x)
    /\ LET out == batch_add(BatchOf(heap, x), other) IN
         IF out.exc # NoError
         THEN FailedStatement("add_other", "b", [x |-> x, other |-> other], out.exc)
         ELSE Statement("add_other", "b", [x |-> x, other |-> other],
                        [heap EXCEPT !.lists = Append(@, out.value.jobs),
                                     !.batches["b"] = Len(heap.lists) + 1])

\* x += other, other neither a Job nor a Batch
IAddOther(x, other) ==
    /\ Assigned(heap, x)
    /\ LET out == batch_iadd(BatchOf(heap, x).jobs, other) IN
         IF out.exc # NoError
         THEN FailedStatement("iadd_other", x, [x |-> x, other |-> other], out.exc)
         ELSE Statement("iadd_other", x, [x |-> x, other |-> other],
                        [heap EXCEPT !.lists[heap.batches[x]] = out.value])

\* x[i] = job: self.jobs[index] = job
SetItem(x, i, job) ==
    /\ Assigned(heap, x)
    /\ i \in DOMAIN BatchOf(heap, x).jobs
    /\ Statement("setitem", x, [index |-> i, job |-> job],
                 [heap EXCEPT !.lists[heap.batches[x]][i] = job])

\* del x[i]: self.jobs.pop(i)
DelItem(x, i) ==
    /\ Assigned(heap, x)
    /\ i \in DOMAIN BatchOf(heap, x).jobs
    /\ Statement("delitem", x, [index |-> i],
                 [heap EXCEPT !.lists[heap.batches[x]] = Pop(@, i)])

\* x[i].name = 'renamed': a field of the Job object reached through x
SetName(x, i) ==
    /\ Assigned(heap, x)
    /\ i \in DOMAIN BatchOf(heap, x).jobs
    /\ Statement("setname", x, [index |-> i],
                 [heap EXCEPT !.jobs[BatchOf(heap, x).jobs[i].ref].name = Some("renamed")])

\* b = x.filter_jobs(): a new list of the Job objects that pass the filter
Filter(x) ==
    /\ Assigned(heap, x)
    /\ LET           kept == SelectSeq(BatchOf(heap, x).jobs,
                     LAMBDA r : filter_jobs(Batch(<<heap.jobs[r.ref]>>), DefaultFlags).value.jobs # <<>>)
       IN Statement("filter_jobs", "b", [x |-> x],
                    [heap EXCEPT !.lists = Append(@, kept),
                                 !.batches["b"] = Len(heap.lists) + 1])

\* lst.append(job): the caller changes the list it built a Batch from
ListAppend(job) ==
    Statement("append", "lst", [job |-> job],
              [heap EXCEPT !.lists[LstId] = Append(@, job)])

\* the caller's list holds up to MaxBatch Jobs, in the order of their ids;
\* the second Job has FAILED, the others are RUNNING
InitCompose ==
    /\ pc = "idle" /\ op = "none"
    /\ arg = None /\ arg0 = None /\ local = None /\ acc = <<>>
    /\ log = <<>> /\ lastResp = NoResponse /\ failed = NoResponse
    /\ result = None /\ error = NoError
    /\ WatchIdle /\ FindIdle /\ DlIdle
    /\ \E n \in 0..MaxBatch :
         heap = [lists |-> <<[k \in 1..n |-> [ref |-> k]]>>,
                 jobs |-> [j \in JobIds |->
                             from_dict(ServerRecord(j, IF j = 2 THEN "FAILED" ELSE "RUNNING"))],
                 batches |-> [x \in BatchNames |-> 0],
                 steps |-> 0]

NextCompose ==
    \/ \E x \in BatchNames : NewBatch(x)
    \/ \E x \in BatchNames, y \in BatchNames : Add(x, y)
    \/ \E x \in BatchNames, job \in JobRefs : AddJob(x, job)
    \/ \E x \in BatchNames, y \in BatchNames : IAdd(x, y)
    \/ \E x \in BatchNames, job \in JobRefs : IAddJob(x, job)
    \/ \E x \in BatchNames, other \in OtherOperands : AddOther(x, other)
    \/ \E x \in BatchNames, other \in OtherOperands : IAddOther(x, other)
    \/ \E x \in BatchNames, i \in 1..(2 * MaxBatch), job \in JobRefs : SetItem(x, i, job)
    \/ \E x \in BatchNames, i \in 1..(2 * MaxBatch) : DelItem(x, i)
    \/ \E x \in BatchNames, i \in 1..(2 * MaxBatch) : SetName(x, i)
    \/ \E x \in BatchNames : Filter(x)
    \/ \E job \in JobRefs : ListAppend(job)

SpecCompose == InitCompose /\ [][NextCompose]_vars

-----------------------------------------------------------------------------
(* Properties of Batch composition *)

\* the list object that name n stands for or holds
ListOf(h, n) == IF n = "lst" THEN LstId ELSE h.batches[n]
Defined(h, n) == n = "lst" \/ Assigned(h, n)
\* the Job references in n, and the Job values seen through n
Refs(h, n) == h.lists[ListOf(h, n)]
View(h, n) == [k \in DOMAIN Refs(h, n) |-> h.jobs[Refs(h, n)[k].ref]]

\* C18: + and += concatenate in order: a + b holds a's jobs followed by b's
\* and has the length of both, a + j holds a's jobs followed by j, a += x
\* leaves in a the jobs a + x would hold, and + is associative.
C18_BatchConcatenation ==
    /\ op = "add" =>
         /\ Refs(heap, "b") = Refs(arg0, params.x) \o Refs(arg0, params.other)
         /\ Len(Refs(heap, "b")) = Len(Refs(arg0, params.x)) + Len(Refs(arg0, params.other))
         /\ View(heap, "b") = View(arg0, params.x) \o View(arg0, params.other)
    /\ op = "add_job" =>
         Refs(heap, "b") = Append(Refs(arg0, params.x), params.other)
    /\ op = "iadd" =>
         /\ Refs(heap, arg) = Refs(arg0, arg) \o Refs(arg0, params.other)
         /\ Refs(heap, arg) = batch_add(BatchOf(arg0, arg), BatchOf(arg0, params.other)).value.jobs
    /\ op = "iadd_job" =>
         /\ Refs(heap, arg) = Append(Refs(arg0, arg), params.other)
         /\ Refs(heap, arg) = batch_add(BatchOf(arg0, arg), params.other).value.jobs
    /\ \A x, y, z \in {n \in BatchNames : heap # <<>> /\ Assigned(heap, n)} :
         batch_add(batch_add(BatchOf(heap, x), BatchOf(heap, y)).value, BatchOf(heap, z)).value.jobs
           = batch_add(BatchOf(heap, x), batch_add(BatchOf(heap, y), BatchOf(heap, z)).value).value.jobs

\* b = a + b with a holding jobs 1, 2 and b holding job 1: b holds 1, 2, 1
C18_Witness ==
    /\ op = "add" /\ params.x = "a" /\ params.other = "b"
    /\ Refs(arg0, "a") = <<[ref |-> 1], [ref |-> 2]>>
    /\ Refs(arg0, "b") = <<[ref |-> 1]>>
    /\ Refs(heap, "b") = <<[ref |-> 1], [ref |-> 2], [ref |-> 1]>>

Mutations == {"iadd", "iadd_job", "setitem", "delitem", "setname", "append"}

\* C19 (as claimed): a statement that changes one Batch (or the caller's
\* list), or a Job reached through it, changes what no other Batch and no
\* other list holds.
C19_OwnsByValue ==
    op \in Mutations =>
        \A n \in BatchNames \cup {"lst"} :
            (n # arg /\ Defined(arg0, n)) => View(heap, n) = View(arg0, n)

\* what the code does: Batch(jobs) keeps the list it is given, + and
\* filter_jobs copy the list but not the Jobs, so a change is seen through
\* every name that holds the same list object or, for a field, the same Job
SharedObjects ==
    /\ op = "Batch" => ListOf(heap, arg) = LstId
    /\ op \in Mutations \ {"setname"} =>
         /\ heap.jobs = arg0.jobs
         /\ \A l \in DOMAIN arg0.lists : l # ListOf(arg0, arg) => heap.lists[l] = arg0.lists[l]
         /\ \A n \in {m \in BatchNames \cup {"lst"} : Defined(arg0, m)} :
              ListOf(arg0, n) = ListOf(arg0, arg) => Refs(heap, n) = Refs(heap, arg)
    /\ op = "setname" =>
         /\ heap.lists = arg0.lists
         /\ \A n \in {m \in BatchNames \cup {"lst"} : Defined(arg0, m)} :
              \A k \in DOMAIN Refs(heap, n) :
                  Refs(heap, n)[k] = Refs(heap, arg)[params.index] =>
                      View(heap, n)[k].name = Some("renamed")

\* C25: + and += with an operand that is neither a Job nor a Batch raise
\* TypeError and leave the Batch on the left with the job sequence it had;
\* with a Job or a Batch they raise nothing
C25_OtherOperandRejected ==
    /\ op \in {"add_other", "iadd_other"} =>
          /\ pc = "raised"
          /\ error.type = "TypeError"
          /\ heap.lists = arg0.lists
          /\ heap.batches = arg0.batches
          /\ heap.jobs = arg0.jobs
    /\ op \in {"add", "add_job", "iadd", "iadd_job"} => error = NoError

\* a += [job] on a Batch that holds jobs has raised
C25_Witness ==
    /\ op = "iadd_other" /\ pc = "raised"
    /\ params.other.type = "list"
    /\ Refs(arg0, params.x) # <<>>

-----------------------------------------------------------------------------
(* Job.from_dict and Job.to_dict on any record, and the client calls that  *)
(* send requests: get_job_by_id, submit_prepared_jobs, my_info, find_jobs  *)
(* and update_jobs                                                         *)

\* request_time strings: with a numeric zone, with the zone designator Z, naive
TimeStrings == {IsoString(10, "+00:00"), IsoString(10, "Z"), IsoString(10, "")}

\* full job records: every field the job's status gives it, ISO-8601 timestamps
FullRecords(j) ==
    {[ServerRecord(j, st) EXCEPT !.request_time = t] : st \in Statuses, t \in TimeStrings}

RequiredFields == {"job_type", "job_id", "request_time", "status_code", "user_id"}

\* d without the key k
Without(d, k) == [x \in DOMAIN d \ {k} |-> d[x]]

\* records with a required field missing, or with a value that is no date or no status
MalformedRecords(j) ==
    {Without(ServerRecord(j, "RUNNING"), k) : k \in RequiredFields}
    \cup {[ServerRecord(j, "RUNNING") EXCEPT !.request_time = Unparseable],
          [ServerRecord(j, "RUNNING") EXCEPT !.status_code = "BOGUS"]}

\* the exception Job.from_dict raises on d, or NoError: expiration_time is
\* parsed first, then the arguments of Job(...) are read in order
from_dict_raises(d) ==
    IF "expiration_time" \in DOMAIN d /\ parse_raises(d.expiration_time) THEN ParserError
    ELSE IF "job_type" \notin DOMAIN d THEN KeyError("job_type")
    ELSE IF "job_id" \notin DOMAIN d THEN KeyError("job_id")
    ELSE IF "request_time" \notin DOMAIN d THEN KeyError("request_time")
    ELSE IF parse_raises(d.request_time) THEN ParserError
    ELSE IF "status_code" \notin DOMAIN d THEN KeyError("status_code")
    ELSE IF "user_id" \notin DOMAIN d THEN KeyError("user_id")
    ELSE NoError

\* Job.from_dict on any record
Job_from_dict(d) ==
    IF from_dict_raises(d) # NoError THEN Raised(from_dict_raises(d)) ELSE Returned(from_dict(d))

CallFromDict(d) == Query("from_dict", d, <<>>, Job_from_dict(d))

\* Job.from_dict(d).to_dict()
CallFromDictToDict(d) ==
    Query("from_dict_to_dict", d, [for_resubmit |-> FALSE], Returned(to_dict(from_dict(d), FALSE)))

\* error responses of the API and of the gateway in front of it
ApiErrorBodies == {ErrorBody, [message |-> "Forbidden"]}
ApiFailures ==
    {Response(st, body) : st \in {403, 404, 500}, body \in ApiErrorBodies} \cup {TransportFailure}

\* a call that sends one request, checks the response with
\* _raise_for_hyp3_status and builds its value from the body
Request(name, a, body, event, r, out) ==
    /\ pc = "idle"
    /\ op' = name
    /\ arg' = a /\ arg0' = a
    /\ params' = body
    /\ log' = <<event>>
    /\ lastResp' = r
    /\ IF RequestError(r) # NoError
       THEN /\ error' = RequestError(r)
            /\ failed' = r
            /\ pc' = "raised"
            /\ UNCHANGED result
       ELSE IF out.exc # NoError
       THEN /\ error' = out.exc
            /\ pc' = "raised"
            /\ UNCHANGED <<result, failed>>
       ELSE /\ result' = Some(out.value)
            /\ pc' = "returned"
            /\ UNCHANGED <<error, failed>>
    /\ UNCHANGED <<local, acc, pages, watchVars, dlVars, heap>>

GetByIdResponses(j) ==
    {Response(200, rec) : rec \in FullRecords(j) \cup MalformedRecords(j)} \cup ApiFailures

\* HyP3.get_job_by_id
GetJobById(j, r) ==
    /\ r \in GetByIdResponses(j)
    /\ Request("get_job_by_id", j, <<>>, GetEvent(j), r, Job_from_dict(r.json))

\* names of at most 20 and of 21 characters
LongName == "xxxxxxxxxxxxxxxxxxxxx"
SubmitNames == {"name", LongName}

\* prepared job dictionaries: job_type, job_parameters and an optional name
PreparedJobs ==
    {[job_type |-> "RTC_GAMMA", job_parameters |-> [granules |-> <<"g1">>]]}
    \cup {[job_type |-> "RTC_GAMMA", job_parameters |-> [granules |-> <<"g1">>], name |-> n] :
            n \in SubmitNames}

PostEvent(payload) == [ev |-> "POST", x |-> [url |-> JobsUrl(<<>>), json |-> payload]]

\* the record the API creates for the k-th job of a payload
CreatedRecord(prepared_job, k) ==
    LET rec == [ServerRecord(k, "PENDING") EXCEPT !.job_type = prepared_job.job_type,
                                                  !.job_parameters = prepared_job.job_parameters]
    IN IF "name" \in DOMAIN prepared_job
       THEN [rec EXCEPT !.name = prepared_job.name]
       ELSE Without(rec, "name")

\* what the POST of a payload can be answered with: the created jobs, or a failure
PostResponses(payload) ==
    {Response(200, [jobs |-> [k \in DOMAIN payload.jobs |-> CreatedRecord(payload.jobs[k], k)]]),
     Response(400, ErrorBody)} \cup ApiFailures

\* batch = Batch(); for job in response.json()['jobs']: batch += Job.from_dict(job)
SubmittedBatch(r) == Batch([k \in DOMAIN r.json.jobs |-> from_dict(r.json.jobs[k])])

\* HyP3.submit_prepared_jobs
submit_prepared_jobs(prepared_jobs, payload, r) ==
    /\ r \in PostResponses(payload)
    /\ Request("submit_prepared_jobs", prepared_jobs, payload, PostEvent(payload), r,
               Returned(SubmittedBatch(r)))

\* prepared_jobs is one dictionary
SubmitDict(prepared_job, r) ==
    submit_prepared_jobs([dict |-> prepared_job], SubmitPayload(prepared_job), r)

\* prepared_jobs is a list of dictionaries
SubmitList(prepared_jobs, r) ==
    submit_prepared_jobs([list |-> prepared_jobs], [jobs |-> prepared_jobs], r)

UserRecord == [user_id |-> "user", remaining_credits |-> 10]
UserEvent == [ev |-> "GET", x |-> "/user"]

\* HyP3.my_info
MyInfo(r) ==
    /\ r \in {Response(200, UserRecord)} \cup ApiFailures
    /\ Request("my_info", <<>>, <<>>, UserEvent, r, Returned(r.json))

\* a search served in two pages
InitApi == CallIdle /\ WatchIdle /\ DlIdle /\ params = <<>> /\ pages = PagesOf(<<1, 1>>)

NextApi ==
    \/ /\ pc = "idle"
       /\ \/ \E j \in JobIds : \E d \in FullRecords(j) \cup MalformedRecords(j) : CallFromDict(d)
          \/ \E j \in JobIds : \E d \in FullRecords(j) : CallFromDictToDict(d)
          \/ \E j \in JobIds : \E r \in GetByIdResponses(j) : GetJobById(j, r)
          \/ \E p \in PreparedJobs : \E r \in PostResponses(SubmitPayload(p)) : SubmitDict(p, r)
          \/ \E ps \in UNION {[1..n -> PreparedJobs] : n \in 1..MaxBatch} :
               \E r \in PostResponses([jobs |-> ps]) : SubmitList(ps, r)
          \/ \E r \in {Response(200, UserRecord)} \cup ApiFailures : MyInfo(r)
    \/ NextFind
    \/ NextUpdate

SpecApi == InitApi /\ [][NextApi]_vars

-----------------------------------------------------------------------------
(* Properties of the record conversions and of the requests *)

\* the timestamp strings isoformat(timespec='seconds') produces
Canonical(t) == IF t.zone = "Z" THEN IsoString(t.iso, "+00:00") ELSE t

\* d with its timestamps as from_dict followed by to_dict writes them
Reserialized(d) ==
    [k \in DOMAIN d |-> IF k \in {"request_time", "expiration_time"} THEN Canonical(d[k]) ELSE d[k]]

\* C21: Job.from_dict(j).to_dict() == j for every well-formed full record j,
\* and the to_dict() of a Job that get_job_by_id returned is the body of the
\* response it was fetched from
C21_RoundTrip ==
    /\ (op = "from_dict_to_dict" /\ pc = "returned") => result = Some(arg)
    /\ (op = "get_job_by_id" /\ pc = "returned") => to_dict(result[1], FALSE) = lastResp.json

\* what the code does: the record comes back with each timestamp rewritten
\* by isoformat, so a record whose timestamps use the designator Z comes back changed
RoundTripUpToTimestamps ==
    /\ (op = "from_dict_to_dict" /\ pc = "returned") => result = Some(Reserialized(arg))
    /\ (op = "get_job_by_id" /\ pc = "returned") =>
          to_dict(result[1], FALSE) = Reserialized(lastResp.json)

MaxNameLen == 20

\* the jobs of a payload whose name is longer than MaxNameLen
LongNamed(payload) ==
    {k \in DOMAIN payload.jobs :
        "name" \in DOMAIN payload.jobs[k] /\ Len(payload.jobs[k].name) > MaxNameLen}

\* C22: submitting a job whose name is longer than 20 characters raises a
\* typed validation error before any request is made, and no job with such
\* a name is ever sent to the server
C22_NameValidatedBeforeRequest ==
    /\ (op = "submit_prepared_jobs" /\ LongNamed(params) # {}) =>
          /\ pc = "raised"
          /\ error.type = "ValidationError"
          /\ log = <<>>
    /\ \A i \in DOMAIN log : log[i].ev = "POST" => LongNamed(log[i].x.json) = {}

\* what the code does: whatever the names, the payload is POSTed as it was
\* prepared and the outcome is the one the response gives
SubmitPostsPayload ==
    op = "submit_prepared_jobs" =>
        /\ log = <<PostEvent(params)>>
        /\ params.jobs = IF "dict" \in DOMAIN arg THEN <<arg.dict>> ELSE arg.list
        /\ pc = "raised" <=> RequestError(lastResp) # NoError
        /\ pc = "raised" => error = RequestError(lastResp)
        /\ pc = "returned" => result = Some(SubmittedBatch(lastResp))

MissingFields(d) == RequiredFields \ DOMAIN d

\* a record in which a required field is missing or malformed
Malformed(d) ==
    \/ MissingFields(d) # {}
    \/ parse_raises(d.request_time)
    \/ d.status_code \notin Statuses

\* a response to get_job_by_id that is not-found or malformed
NotFoundOrMalformed(r) == r.status = 404 \/ (r.status = 200 /\ Malformed(r.json))

\* C23: Job.from_dict on a record with a required field missing or
\* malformed, and get_job_by_id on a not-found or malformed response, raise
\* a typed SDK error, never a generic exception such as KeyError
C23_FailuresTyped ==
    /\ (op = "from_dict" /\ Malformed(arg)) => (pc = "raised" /\ IsHyP3SDKError(error))
    /\ (op = "get_job_by_id" /\ NotFoundOrMalformed(lastResp)) =>
          (pc = "raised" /\ IsHyP3SDKError(error))

\* the outcome from_dict has on the record d: KeyError for a missing
\* required key, ParserError for a request_time that is no date, and a Job
\* for any status_code
DeserializationOutcome(d) ==
    IF MissingFields(d) # {}
    THEN pc = "raised" /\ \E k \in MissingFields(d) : error = KeyError(k)
    ELSE IF parse_raises(d.request_time)
    THEN pc = "raised" /\ error = ParserError
    ELSE pc = "returned" /\ result[1].status_code = d.status_code

\* what the code does: deserialization failures are the exceptions of the
\* dictionary lookup and of the date parser, a record with an unknown
\* status_code gives a Job, and a 404 gives HyP3Error only when its body
\* has a detail
DeserializationFailures ==
    /\ op = "from_dict" => DeserializationOutcome(arg)
    /\ (op = "get_job_by_id" /\ lastResp.status = 200) => DeserializationOutcome(lastResp.json)
    /\ (op = "get_job_by_id" /\ lastResp.status = 404) =>
          /\ pc = "raised"
          /\ IF "detail" \in DOMAIN lastResp.json
             THEN error = HyP3Error(<<"<Response [", 404, "]> ", lastResp.json.detail>>)
             ELSE error = KeyError("detail")

\* the calls that request job records or the user record
JobRecordRequests ==
    {"find_jobs", "get_job_by_id", "submit_prepared_jobs", "update_jobs", "my_info"}

\* a response has been received by a job-record request
Answered == op \in JobRecordRequests /\ lastResp # NoResponse /\ lastResp # TransportFailure

\* C24: in every job-record request the status of the response decides the
\* outcome: 4xx raises HyP3Error with the server's detail text, 5xx raises
\* ServerError, a different kind of error, and a success raises nothing
C24_StatusDecidesOutcome ==
    Answered =>
        /\ (400 <= lastResp.status /\ lastResp.status < 500) =>
              /\ pc = "raised"
              /\ error.type = "HyP3Error"
              /\ "detail" \in DOMAIN lastResp.json =>
                    error.msg[Len(error.msg)] = lastResp.json.detail
        /\ (500 <= lastResp.status /\ lastResp.status < 600) =>
              /\ pc = "raised"
              /\ error = ServerError
              /\ error.type # "HyP3Error"
        /\ lastResp.status < 400 => (pc # "raised" /\ error = NoError)

\* what the code does: a 4xx raises HyP3Error only when its body has a
\* detail and KeyError otherwise, a 5xx raises ServerError whatever its
\* body, and after a success only Job.from_dict can raise
StatusOutcome ==
    Answered =>
        /\ (400 <= lastResp.status /\ lastResp.status < 500) =>
              /\ pc = "raised"
              /\ IF "detail" \in DOMAIN lastResp.json
                 THEN error = HyP3Error(<<"<Response [", lastResp.status, "]> ", lastResp.json.detail>>)
                 ELSE error = KeyError("detail")
        /\ (500 <= lastResp.status /\ lastResp.status < 600) =>
              (pc = "raised" /\ error = ServerError)
        /\ lastResp.status < 400 =>
              IF op = "get_job_by_id" /\ from_dict_raises(lastResp.json) # NoError
              THEN pc = "raised" /\ error = from_dict_raises(lastResp.json)
              ELSE pc # "raised" /\ error = NoError
-----------------------------------------------------------------------------
(* stac.validate_stack on a Batch of the caller's Jobs *)

NotImplementedError(msg) == [type |-> "NotImplementedError", msg |-> msg]

\* a SUCCEEDED, unexpired INSAR_GAMMA job record of its own granules
StacRecord(j) ==
    [job_type |-> "INSAR_GAMMA", job_id |-> j,
     request_time |-> IsoString(10, "+00:00"),
     status_code |-> "SUCCEEDED", user_id |-> "user", name |-> "name",
     job_parameters |-> [granules |-> <<"g", j>>, looks |-> "20x4"],
     expiration_time |-> IsoString(100, "+00:00")]

\* the records the caller's Job j may have been made from: the one above, of
\* another job type, still running, expired, without an expiration time, with
\* other processing parameters, without granules, without job_parameters
StacRecords(j) ==
    {StacRecord(j)}
    \cup {[StacRecord(j) EXCEPT !.job_type = t] : t \in {"RTC_GAMMA", "AUTORIFT"}}
    \cup {Without([StacRecord(j) EXCEPT !.status_code = "RUNNING"], "expiration_time")}
    \cup {[StacRecord(j) EXCEPT !.expiration_time = IsoString(20, "+00:00")]}
    \cup {Without(StacRecord(j), "expiration_time")}
    \cup {[StacRecord(j) EXCEPT !.job_parameters = [granules |-> <<"g", j>>, looks |-> "10x2"]]}
    \cup {[StacRecord(j) EXCEPT !.job_parameters = [looks |-> "20x4"]]}
    \cup {Without(StacRecord(j), "job_parameters")}

\* list(set(...)): the elements of S in one of the orders a set can be listed in
Orderings(S) ==
    {s \in [1..Cardinality(S) -> S] : \A i, k \in DOMAIN s : i # k => s[i] # s[k]}

supported_job_types == <<"INSAR_GAMMA", "RTC_GAMMA", "INSAR_ISCE_BURST">>

\* dict.pop(key, None) on the dictionary d
dict_pop(d, key) == [k \in DOMAIN d \ {key} |-> d[k]]

\* the Jobs of heap h after `[job.pop('granules', None) for job in job_params]`:
\* Job.to_dict stores the attribute's value itself under 'job_parameters', so
\* each element of job_params is the dictionary its Job holds
PopGranules(h, refs) ==
    [h EXCEPT !.jobs =
        [j \in DOMAIN h.jobs |->
            IF \E i \in DOMAIN refs : refs[i].ref = j
            THEN [h.jobs[j] EXCEPT !.job_parameters = Some(dict_pop(@[1], "granules"))]
            ELSE h.jobs[j]]]

\* validate_stack(batch), batch holding the Jobs refs of heap h, job_types the
\* order the set of job types is listed in: the outcome and the heap after it.
\* str(dict) is compared as the dictionary, the keys being in the API's order.
validate_stack(h, refs, job_types) ==
    LET batch == [i \in DOMAIN refs |-> h.jobs[refs[i].ref]]
        job_dicts == [i \in DOMAIN batch |-> to_dict(batch[i], FALSE)]
        n_success == Cardinality({i \in DOMAIN job_dicts : job_dicts[i].status_code = "SUCCEEDED"})
        popped == PopGranules(h, refs)
        param_set == {popped.jobs[refs[i].ref].job_parameters[1] : i \in DOMAIN refs}
        raises(e, heap_after) == [exc |-> e, value |-> None, heap |-> heap_after]
    IN IF n_success # Len(batch)
       THEN raises(ValueError(<<"Not all jobs in the batch have succeeded yet">>), h)
       ELSE IF any_expired(batch)
       THEN raises(ValueError(<<"Some of the jobs in the batch have expired">>), h)
       ELSE IF Len(job_types) # 1
       THEN raises(ValueError(<<"Not all jobs have the same job type. Included types: ", job_types>>), h)
       ELSE IF \A k \in DOMAIN supported_job_types : supported_job_types[k] # job_types[1]
       THEN raises(NotImplementedError(<<"Job type ", job_types[1], " is not supported. Only ",
                                         supported_job_types, " are supported">>), h)
       ELSE IF \E i \in DOMAIN job_dicts : "job_parameters" \notin DOMAIN job_dicts[i]
       THEN raises(KeyError("job_parameters"), h)
       ELSE IF Cardinality(param_set) # 1
       THEN raises(ValueError(<<"Not all jobs have the same processing parameters">>), popped)
       ELSE [exc |-> NoError, value |-> None, heap |-> popped]

\* the caller's statement stac.validate_stack(x)
ValidateStack(x) ==
    /\ pc = "idle"
    /\ Assigned(heap, x)
    /\ LET refs == heap.lists[heap.batches[x]] IN
       \E job_types \in Orderings({heap.jobs[refs[i].ref].job_type : i \in DOMAIN refs}) :
         LET out == validate_stack(heap, refs, job_types) IN
           /\ op' = "validate_stack"
           /\ arg' = x
           /\ arg0' = heap
           /\ heap' = [out.heap EXCEPT !.steps = heap.steps + 1]
           /\ IF out.exc = NoError
              THEN /\ result' = Some(out.value)
                   /\ pc' = "returned"
                   /\ UNCHANGED error
              ELSE /\ error' = out.exc
                   /\ pc' = "raised"
                   /\ UNCHANGED result
    /\ UNCHANGED <<local, acc, log, lastResp, failed, pages, params>>
    /\ UNCHANGED <<watchVars, dlVars>>

\* the caller holds the Jobs 1..MaxBatch and the Batch a of some of them
InitStac ==
    /\ pc = "idle" /\ op = "none"
    /\ arg = None /\ arg0 = None /\ local = None /\ acc = <<>>
    /\ log = <<>> /\ lastResp = NoResponse /\ failed = NoResponse
    /\ result = None /\ error = NoError
    /\ WatchIdle /\ FindIdle /\ DlIdle
    /\ \E n \in 0..MaxBatch :
       \E refs \in [1..n -> JobRefs] :
       \E jobs \in [JobIds -> UNION {StacRecords(j) : j \in JobIds}] :
         /\ \A j \in JobIds : jobs[j] \in StacRecords(j)
         /\ heap = [lists |-> <<refs>>,
                    jobs |-> [j \in JobIds |-> from_dict(jobs[j])],
                    batches |-> [x \in BatchNames |-> IF x = "a" THEN 1 ELSE 0],
                    steps |-> 0]

NextStac == ValidateStack("a")

SpecStac == InitStac /\ [][NextStac]_vars

-----------------------------------------------------------------------------
(* Properties of validate_stack *)

\* the Jobs the Batch a held when the call started
StackJobs == {arg0.lists[arg0.batches["a"]][i].ref : i \in DOMAIN arg0.lists[arg0.batches["a"]]}

\* the call came as far as comparing the processing parameters
ParametersCompared ==
    \/ pc = "returned"
    \/ pc = "raised" /\ error = ValueError(<<"Not all jobs have the same processing parameters">>)

\* C30 (as claimed): validate_stack only inspects its batch: whether it returns
\* or raises, every Job has the same job_parameters, granules included, and
\* the same other fields after the call as before it.
C30_ValidateStackReadOnly ==
    op = "validate_stack" =>
        /\ heap.jobs = arg0.jobs
        /\ heap.lists = arg0.lists
        /\ heap.batches = arg0.batches

\* what the code does: a call that comes as far as comparing the processing
\* parameters has removed `granules` from the job_parameters of every Job of
\* the batch; nothing else changes
ValidateStackEffect ==
    op = "validate_stack" =>
        /\ heap.lists = arg0.lists
        /\ heap.batches = arg0.batches
        /\ \A j \in JobIds :
             heap.jobs[j] =
                IF ParametersCompared /\ j \in StackJobs
                THEN [arg0.jobs[j] EXCEPT !.job_parameters = Some(dict_pop(@[1], "granules"))]
                ELSE arg0.jobs[j]
        /\ (pc = "returned" /\ StackJobs # {}) =>
              \A j \in StackJobs : "granules" \notin DOMAIN heap.jobs[j].job_parameters[1]

====
